---- MODULE Spec2Model ----
(***************************************************************************)
(* A model of the recipe tool (src/recipe_tool.py): the Ingredient and     *)
(* Recipe values with their scale / convert transforms, the ingredient     *)
(* line parser and the extraction orchestrator RecipeScraper.scrape.       *)
(*                                                                         *)
(* Conventions.                                                            *)
(*   - An Optional[...] value is a sequence: <<>> is None, <<v>> is v.     *)
(*   - A float is an exact rational <<n, d>> in lowest terms (d > 0), so   *)
(*     an Optional[float] is <<>> or <<n, d>>.  round(x, 3) is modelled    *)
(*     on the rational.                                                    *)
(*   - Python objects that the code shares by reference (Ingredient,       *)
(*     Recipe) live in heaps: a sequence of records, the index being the   *)
(*     object's identity.                                                  *)
(*   - A str that the code inspects is a sequence of one-character         *)
(*     strings; a str that the modelled code only copies is written as a   *)
(*     TLA+ string.                                                        *)
(***************************************************************************)
EXTENDS Integers, Sequences, FiniteSets, TLC

VARIABLES
    ingHeap,    \* Ingredient objects, by identity
    recHeap,    \* Recipe objects, by identity
    lastCall,   \* the last Recipe method call: its method, receiver, factor, result
    convIn,     \* convert_unit: <<ingredient, target_unit>> of the call
    convOut,    \* convert_unit: <<>> before the call, <<returned value>> after
    parseIn,    \* _parse_ingredient: the line passed to the call
    parseOut,   \* _parse_ingredient: <<>> before the call, <<outcome>> after
    page,       \* scrape: the response, the fetched document, the extractor
    pc,         \* scrape: the position of the call
    attempted,  \* scrape: the strategies entered so far, in order
    result,     \* scrape: <<>>, or <<outcome>> once the call has ended
    helperIn,   \* a helper method of the scraper called on its own: its argument
    helperOut,  \* that call: <<>> before it, <<returned value>> after
    headingLoop,     \* _extract_from_headings: the locals of its loop over the headings
    heuristicLocals, \* _parse_heuristic: where the call is, its ingredients and instructions
    app,        \* app.py: the module globals current_recipe and ANTHROPIC_API_KEY
    response    \* app.py: the last request and the response it got

recipeVars == <<ingHeap, recHeap, lastCall>>
convVars == <<convIn, convOut>>
parseVars == <<parseIn, parseOut>>
scrapeVars == <<page, pc, attempted, result>>
helperVars == <<helperIn, helperOut, headingLoop, heuristicLocals>>
apiVars == <<app, response>>
vars == <<ingHeap, recHeap, lastCall, convIn, convOut, parseIn, parseOut,
          page, pc, attempted, result, helperIn, helperOut, headingLoop,
          heuristicLocals, app, response>>

None == <<>>
Some(v) == <<v>>

(***************************************************************************)
(* Exact rational arithmetic standing for Python's float arithmetic.       *)
(***************************************************************************)
RECURSIVE Gcd(_, _)
Gcd(a, b) == IF b = 0 THEN a ELSE Gcd(b, a % b)

Abs(x) == IF x < 0 THEN -x ELSE x

\* n/d in lowest terms with a positive denominator
Rat(n, d) ==
    LET g == Gcd(Abs(n), Abs(d))
        s == IF d < 0 THEN -1 ELSE 1
    IN  <<(s * n) \div g, (s * d) \div g>>

\* a * b, cross-cancelled before multiplying to keep the integers small
RatMul(a, b) ==
    LET g1 == Gcd(Abs(a[1]), b[2])
        g2 == Gcd(Abs(b[1]), a[2])
        h1 == IF g1 = 0 THEN 1 ELSE g1
        h2 == IF g2 = 0 THEN 1 ELSE g2
    IN  Rat((a[1] \div h1) * (b[1] \div h2), (a[2] \div h2) * (b[2] \div h1))

\* a / b, b # 0
RatDiv(a, b) == RatMul(a, Rat(b[2], b[1]))

RatGeq(a, b) == a[1] * b[2] >= b[1] * a[2]

\* int(x): truncation towards zero
Trunc(x) == IF x[1] >= 0 THEN x[1] \div x[2] ELSE -((-x[1]) \div x[2])

\* <<(r * m) \div d, (r * m) % d>> for 0 <= r < d, by doubling, so that no
\* intermediate value exceeds 2 * d
RECURSIVE MulDivMod(_, _, _)
MulDivMod(r, m, d) ==
    IF m = 0 THEN <<0, 0>>
    ELSE LET h == MulDivMod(r, m \div 2, d)
             a == IF 2 * h[2] >= d THEN <<2 * h[1] + 1, 2 * h[2] - d>>
                  ELSE <<2 * h[1], 2 * h[2]>>
         IN  IF m % 2 = 0 THEN a
             ELSE IF a[2] + r >= d THEN <<a[1] + 1, a[2] + r - d>>
             ELSE <<a[1], a[2] + r>>

\* round(x, 3): the nearest multiple of 1/1000, an exact tie going to the
\* even one
round3(x) ==
    LET whole == x[1] \div x[2]
        frac == MulDivMod(x[1] % x[2], 1000, x[2])
        fl == 1000 * whole + frac[1]
        r2 == 2 * frac[2]
        k == IF r2 < x[2] THEN fl
             ELSE IF r2 > x[2] THEN fl + 1
             ELSE IF fl % 2 = 0 THEN fl ELSE fl + 1
    IN  Rat(k, 1000)

(***************************************************************************)
(* Texts.  A Python str that the code inspects is a sequence of            *)
(* one-character strings; the texts of the model are ASCII, and their only *)
(* whitespace character is the space.                                      *)
(***************************************************************************)
UpperLetters == <<"A", "B", "C", "D", "E", "F", "G", "H", "I", "J", "K", "L", "M",
                 "N", "O", "P", "Q", "R", "S", "T", "U", "V", "W", "X", "Y", "Z">>
LowerLetters == <<"a", "b", "c", "d", "e", "f", "g", "h", "i", "j", "k", "l", "m",
                 "n", "o", "p", "q", "r", "s", "t", "u", "v", "w", "x", "y", "z">>

UpperSet == {UpperLetters[i] : i \in DOMAIN UpperLetters}
LowerSet == {LowerLetters[i] : i \in DOMAIN LowerLetters}
LowerOf == [c \in UpperSet |->
              LowerLetters[CHOOSE i \in DOMAIN UpperLetters : UpperLetters[i] = c]]

\* str.isupper / islower / isdigit / isspace of one character, and \w
IsUpperChar(c) == c \in UpperSet
IsLowerChar(c) == c \in LowerSet
IsDigit(c) == c \in {"0", "1", "2", "3", "4", "5", "6", "7", "8", "9"}
IsSpace(c) == c = " "
IsWordChar(c) == IsUpperChar(c) \/ IsLowerChar(c) \/ IsDigit(c) \/ c = "_"

lowerChar(c) == IF c \in UpperSet THEN LowerOf[c] ELSE c

\* str.lower()
lower(s) == [i \in 1..Len(s) |-> lowerChar(s[i])]

(***************************************************************************)
(* Unit conversion tables: unit name -> factor, as a rational.             *)
(***************************************************************************)
VOLUME_TO_ML ==
    (<<"m", "l">> :> <<1, 1>>) @@
    (<<"m", "i", "l", "l", "i", "l", "i", "t", "e", "r">> :> <<1, 1>>) @@
    (<<"m", "i", "l", "l", "i", "l", "i", "t", "e", "r", "s">> :> <<1, 1>>) @@
    (<<"l">> :> <<1000, 1>>) @@
    (<<"l", "i", "t", "e", "r">> :> <<1000, 1>>) @@
    (<<"l", "i", "t", "e", "r", "s">> :> <<1000, 1>>) @@
    (<<"t", "s", "p">> :> <<4929, 1000>>) @@
    (<<"t", "e", "a", "s", "p", "o", "o", "n">> :> <<4929, 1000>>) @@
    (<<"t", "e", "a", "s", "p", "o", "o", "n", "s">> :> <<4929, 1000>>) @@
    (<<"t", "b", "s", "p">> :> <<14787, 1000>>) @@
    (<<"t", "a", "b", "l", "e", "s", "p", "o", "o", "n">> :> <<14787, 1000>>) @@
    (<<"t", "a", "b", "l", "e", "s", "p", "o", "o", "n", "s">> :> <<14787, 1000>>) @@
    (<<"c", "u", "p">> :> <<59147, 250>>) @@
    (<<"c", "u", "p", "s">> :> <<59147, 250>>) @@
    (<<"f", "l", " ", "o", "z">> :> <<14787, 500>>) @@
    (<<"f", "l", "u", "i", "d", " ", "o", "u", "n", "c", "e">> :> <<14787, 500>>) @@
    (<<"f", "l", "u", "i", "d", " ", "o", "u", "n", "c", "e", "s">> :> <<14787, 500>>) @@
    (<<"p", "i", "n", "t">> :> <<59147, 125>>) @@
    (<<"p", "i", "n", "t", "s">> :> <<59147, 125>>) @@
    (<<"q", "u", "a", "r", "t">> :> <<946353, 1000>>) @@
    (<<"q", "u", "a", "r", "t", "s">> :> <<946353, 1000>>) @@
    (<<"g", "a", "l", "l", "o", "n">> :> <<378541, 100>>) @@
    (<<"g", "a", "l", "l", "o", "n", "s">> :> <<378541, 100>>)

WEIGHT_TO_G ==
    (<<"g">> :> <<1, 1>>) @@
    (<<"g", "r", "a", "m">> :> <<1, 1>>) @@
    (<<"g", "r", "a", "m", "s">> :> <<1, 1>>) @@
    (<<"k", "g">> :> <<1000, 1>>) @@
    (<<"k", "i", "l", "o", "g", "r", "a", "m">> :> <<1000, 1>>) @@
    (<<"k", "i", "l", "o", "g", "r", "a", "m", "s">> :> <<1000, 1>>) @@
    (<<"o", "z">> :> <<56699, 2000>>) @@
    (<<"o", "u", "n", "c", "e">> :> <<56699, 2000>>) @@
    (<<"o", "u", "n", "c", "e", "s">> :> <<56699, 2000>>) @@
    (<<"l", "b">> :> <<56699, 125>>) @@
    (<<"p", "o", "u", "n", "d">> :> <<56699, 125>>) @@
    (<<"p", "o", "u", "n", "d", "s">> :> <<56699, 125>>)

\* Python truthiness of an Optional[float], Optional[int], Optional[str]
TruthyNum(q) == q # None /\ q[1] # 0
TruthyStr(u) == u # None /\ u[1] # <<>>

(***************************************************************************)
(* Ingredient (a dataclass): quantity, unit, item, original_text.          *)
(***************************************************************************)
Ingredient(quantity, unit, item, original_text) ==
    [quantity |-> quantity, unit |-> unit, item |-> item,
     original_text |-> original_text]

\* Ingredient.scale: the value of the new Ingredient
Ingredient_scale(self, factor) ==
    LET new_qty == IF TruthyNum(self.quantity)
                   THEN RatMul(self.quantity, factor) ELSE None
    IN  Ingredient(new_qty, self.unit, self.item, self.original_text)

\* table[key]: <<>> stands for the KeyError of a missing key
Lookup(table, key) == IF key \in DOMAIN table THEN table[key] ELSE None

\* The outcome of a call that returns an Ingredient: raised (an exception
\* left the call), else same (the receiver itself was returned, no new
\* object) and value (the returned Ingredient's fields)
Returned(same, value) == [raised |-> FALSE, same |-> same, value |-> value]
Raised(value) == [raised |-> TRUE, same |-> FALSE, value |-> value]

\* One branch of convert_unit: through the table's base unit, rounded
ConvertVia(self, table, source_unit, target_lower, target_unit) ==
    LET fs == Lookup(table, source_unit)
        ft == Lookup(table, target_lower)
    IN  IF fs = None \/ ft = None THEN Raised(self)
        ELSE LET base == RatMul(self.quantity, fs)
                 new_qty == RatDiv(base, ft)
             IN  Returned(FALSE, Ingredient(round3(new_qty), Some(target_unit),
                                            self.item, self.original_text))

\* A convert_unit that tests only the source unit against each table
ConvertUncheckedTarget(self, target_unit) ==
    IF ~TruthyNum(self.quantity) \/ ~TruthyStr(self.unit) THEN Returned(TRUE, self)
    ELSE LET source_unit == lower(self.unit[1])
             target_lower == lower(target_unit)
         IN  IF source_unit \in DOMAIN VOLUME_TO_ML
             THEN ConvertVia(self, VOLUME_TO_ML, source_unit, target_lower, target_unit)
             ELSE IF source_unit \in DOMAIN WEIGHT_TO_G
             THEN ConvertVia(self, WEIGHT_TO_G, source_unit, target_lower, target_unit)
             ELSE Returned(TRUE, self)

\* Ingredient.convert_unit
Ingredient_convert_unit(self, target_unit) ==
    IF ~TruthyNum(self.quantity) \/ ~TruthyStr(self.unit) THEN Returned(TRUE, self)
    ELSE LET source_unit == lower(self.unit[1])
             target_lower == lower(target_unit)
         IN  IF source_unit \in DOMAIN VOLUME_TO_ML /\ target_lower \in DOMAIN VOLUME_TO_ML
             THEN ConvertVia(self, VOLUME_TO_ML, source_unit, target_lower, target_unit)
             ELSE IF source_unit \in DOMAIN WEIGHT_TO_G /\ target_lower \in DOMAIN WEIGHT_TO_G
             THEN ConvertVia(self, WEIGHT_TO_G, source_unit, target_lower, target_unit)
             ELSE Returned(TRUE, self)

(***************************************************************************)
(* Recipe (a dataclass).  ingredients is a list of Ingredient objects:     *)
(* here a sequence of indices into the Ingredient heap.                    *)
(***************************************************************************)
Recipe(name, servings, prep, cook, total, ingredients, instructions, url) ==
    [name |-> name, servings |-> servings, prep_time |-> prep,
     cook_time |-> cook, total_time |-> total,
     ingredients |-> ingredients, instructions |-> instructions,
     source_url |-> url]

\* A call that builds a Recipe from one outcome per ingredient of the
\* receiver: the new Ingredient objects are appended to the heap ih, an
\* outcome that is the receiver's own object keeps its index.  Yields
\* <<Ingredient heap, Recipe heap>> after the call; the new Recipe is last.
Construct(ih, rh, self, servings, outcomes) ==
    LET n == Len(self.ingredients)
        fresh == SelectSeq(outcomes, LAMBDA o : ~o.same)
        nth(i) == Len(SelectSeq(SubSeq(outcomes, 1, i), LAMBDA o : ~o.same))
        ids == [i \in 1..n |-> IF outcomes[i].same THEN self.ingredients[i]
                                ELSE Len(ih) + nth(i)]
    IN  <<ih \o [i \in 1..Len(fresh) |-> fresh[i].value],
          Append(rh, Recipe(self.name, servings, self.prep_time, self.cook_time,
                            self.total_time, ids, self.instructions,
                            self.source_url))>>

\* A scale that multiplies the quantities of the receiver's own Ingredient
\* objects and hands them to the new Recipe
ScaleInPlace(ih, rh, r, factor) ==
    LET self == rh[r]
        new_servings == IF TruthyNum(self.servings)
                        THEN Some(Trunc(RatMul(<<self.servings[1], 1>>, factor)))
                        ELSE None
        mine == {self.ingredients[i] : i \in 1..Len(self.ingredients)}
    IN  <<[j \in 1..Len(ih) |-> IF j \in mine THEN Ingredient_scale(ih[j], factor)
                                 ELSE ih[j]],
          Append(rh, Recipe(self.name, new_servings, self.prep_time,
                            self.cook_time, self.total_time, self.ingredients,
                            self.instructions, self.source_url))>>

\* A scale that leaves out the ingredients that have no quantity
ScaleDroppingUnquantified(ih, rh, r, factor) ==
    LET self == rh[r]
        new_servings == IF TruthyNum(self.servings)
                        THEN Some(Trunc(RatMul(<<self.servings[1], 1>>, factor)))
                        ELSE None
        kept == SelectSeq(self.ingredients, LAMBDA j : TruthyNum(ih[j].quantity))
        outcomes == [i \in 1..Len(kept) |->
                        Returned(FALSE, Ingredient_scale(ih[kept[i]], factor))]
    IN  Construct(ih, rh, [self EXCEPT !.ingredients = kept], new_servings, outcomes)

\* Recipe.scale, on the Recipe object r
Recipe_scale(ih, rh, r, factor) ==
    LET self == rh[r]
        new_servings == IF TruthyNum(self.servings)
                        THEN Some(Trunc(RatMul(<<self.servings[1], 1>>, factor)))
                        ELSE None
        outcomes == [i \in 1..Len(self.ingredients) |->
                        Returned(FALSE, Ingredient_scale(ih[self.ingredients[i]], factor))]
    IN  Construct(ih, rh, self, new_servings, outcomes)

Recipe_halve(ih, rh, r) == Recipe_scale(ih, rh, r, <<1, 2>>)
Recipe_double(ih, rh, r) == Recipe_scale(ih, rh, r, <<2, 1>>)
Recipe_triple(ih, rh, r) == Recipe_scale(ih, rh, r, <<3, 1>>)

\* A promotion that tests the quantity of the receiver, not that of the
\* converted ingredient, against 1000
PromoteOnReceiver(ing, small, large) ==
    LET first == Ingredient_convert_unit(ing, small)
        converted == first.value
    IN  IF TruthyNum(ing.quantity) /\ RatGeq(ing.quantity, <<1000, 1>>)
        THEN LET second == Ingredient_convert_unit(converted, large)
             IN  Returned(first.same /\ second.same, second.value)
        ELSE first

\* convert_unit(small), then convert_unit(large) when the quantity is >= 1000
Promote(ing, small, large) ==
    LET first == Ingredient_convert_unit(ing, small)
        converted == first.value
    IN  IF TruthyNum(converted.quantity) /\ RatGeq(converted.quantity, <<1000, 1>>)
        THEN LET second == Ingredient_convert_unit(converted, large)
             IN  Returned(first.same /\ second.same, second.value)
        ELSE first

\* The loop body of Recipe.convert_to_metric, for one ingredient
MetricIngredient(ing) ==
    IF TruthyStr(ing.unit) /\ lower(ing.unit[1]) \in DOMAIN VOLUME_TO_ML
    THEN Promote(ing, <<"m", "l">>, <<"L">>)
    ELSE IF TruthyStr(ing.unit) /\ lower(ing.unit[1]) \in DOMAIN WEIGHT_TO_G
    THEN Promote(ing, <<"g">>, <<"k", "g">>)
    ELSE Returned(TRUE, ing)

\* A convert_to_metric that returns only the ingredients it has a table for
MetricDroppingUnconvertible(ih, rh, r) ==
    LET self == rh[r]
        kept == SelectSeq(self.ingredients,
                          LAMBDA j : TruthyStr(ih[j].unit) /\
                                     lower(ih[j].unit[1]) \in DOMAIN VOLUME_TO_ML \cup DOMAIN WEIGHT_TO_G)
    IN  Construct(ih, rh, [self EXCEPT !.ingredients = kept], self.servings,
                  [i \in 1..Len(kept) |-> MetricIngredient(ih[kept[i]])])

\* Recipe.convert_to_metric, on the Recipe object r
Recipe_convert_to_metric(ih, rh, r) ==
    LET self == rh[r]
    IN  Construct(ih, rh, self, self.servings,
                  [i \in 1..Len(self.ingredients) |->
                      MetricIngredient(ih[self.ingredients[i]])])

\* The loop body of Recipe.convert_to_imperial, for one ingredient
ImperialIngredient(ing) ==
    IF TruthyStr(ing.unit) /\ lower(ing.unit[1]) \in
           {<<"m", "l">>, <<"m", "i", "l", "l", "i", "l", "i", "t", "e", "r">>,
            <<"m", "i", "l", "l", "i", "l", "i", "t", "e", "r", "s">>,
            <<"l">>, <<"l", "i", "t", "e", "r">>, <<"l", "i", "t", "e", "r", "s">>}
    THEN Ingredient_convert_unit(ing, <<"c", "u", "p", "s">>)
    ELSE IF TruthyStr(ing.unit) /\ lower(ing.unit[1]) \in
           {<<"g">>, <<"g", "r", "a", "m">>, <<"g", "r", "a", "m", "s">>, <<"k", "g">>,
            <<"k", "i", "l", "o", "g", "r", "a", "m">>,
            <<"k", "i", "l", "o", "g", "r", "a", "m", "s">>}
    THEN Ingredient_convert_unit(ing, <<"o", "z">>)
    ELSE Returned(TRUE, ing)

\* Recipe.convert_to_imperial, on the Recipe object r
Recipe_convert_to_imperial(ih, rh, r) ==
    LET self == rh[r]
    IN  Construct(ih, rh, self, self.servings,
                  [i \in 1..Len(self.ingredients) |->
                      ImperialIngredient(ih[self.ingredients[i]])])

(***************************************************************************)
(* str methods used by the scraper, on texts.                              *)
(***************************************************************************)
\* The outcome of a call: a returned value, or an exception leaving the call
Return(value) == [raised |-> FALSE, exception |-> "", value |-> value]
Raise(exception) == [raised |-> TRUE, exception |-> exception, value |-> None]

RECURSIVE lstrip(_)
lstrip(s) == IF s # <<>> /\ IsSpace(s[1]) THEN lstrip(Tail(s)) ELSE s

RECURSIVE rstrip(_)
rstrip(s) ==
    IF s # <<>> /\ IsSpace(s[Len(s)]) THEN rstrip(SubSeq(s, 1, Len(s) - 1)) ELSE s

\* str.strip()
strip(s) == rstrip(lstrip(s))

\* s[p:], p counted from 1
From(s, p) == SubSeq(s, p, Len(s))

\* str.startswith
startswith(s, prefix) ==
    Len(s) >= Len(prefix) /\ SubSeq(s, 1, Len(prefix)) = prefix

\* The literal lit (written in lower case) matches s at index p under
\* re.IGNORECASE
MatchAt(s, p, lit) ==
    p + Len(lit) - 1 <= Len(s) /\ lower(SubSeq(s, p, p + Len(lit) - 1)) = lit

\* The length of the run of whitespace (\s*), of digits (\d*), of other
\* characters, that starts at index p
RECURSIVE SpaceRun(_, _)
SpaceRun(s, p) == IF p <= Len(s) /\ IsSpace(s[p]) THEN 1 + SpaceRun(s, p + 1) ELSE 0

RECURSIVE DigitRun(_, _)
DigitRun(s, p) == IF p <= Len(s) /\ IsDigit(s[p]) THEN 1 + DigitRun(s, p + 1) ELSE 0

\* The least member of a non-empty set of indices
Least(S) == CHOOSE i \in S : \A j \in S : i <= j

\* The length of the word (a run without whitespace) that starts at index
\* p, stops being the indices of the whitespace from p on
WordLength(s, p, stops) == (IF stops = {} THEN Len(s) + 1 ELSE Least(stops)) - p
WordRun(s, p) == WordLength(s, p, {i \in p..Len(s) : IsSpace(s[i])})

\* The index after the whitespace (\s*), after the digits (\d*), after an
\* optional character c (c?), that start at index p
skip_spaces(s, p) == p + SpaceRun(s, p)
skip_digits(s, p) == p + DigitRun(s, p)
skip_optional(s, p, c) == IF p <= Len(s) /\ s[p] = c THEN p + 1 ELSE p

\* The character c is at index p: p, else 0
char_at(s, p, c) == IF p <= Len(s) /\ s[p] = c THEN p ELSE 0

\* str.split(): the whitespace-separated words
RECURSIVE split(_)
split(s) ==
    LET t == lstrip(s)
        n == WordRun(t, 1)
    IN  IF t = <<>> THEN <<>> ELSE <<SubSeq(t, 1, n)>> \o split(From(t, n + 1))

\* str.isupper(): some cased character, and no lower-case one
isupper(s) ==
    /\ \E i \in 1..Len(s) : IsUpperChar(s[i])
    /\ \A i \in 1..Len(s) : ~IsLowerChar(s[i])

\* str.find(c) + 1: the index of the first c in s, 0 when there is none
find(s, c) ==
    IF \E i \in 1..Len(s) : s[i] = c
    THEN CHOOSE i \in 1..Len(s) : s[i] = c /\ \A j \in 1..(i - 1) : s[j] # c
    ELSE 0

\* re.sub(pattern, repl, s): ends[i] is the index of the last character of
\* the pattern's match that starts at index i, 0 when it does not match
\* there; the matches are replaced from left to right, without overlap, the
\* scan going on from index i; no pattern of the scraper matches in an
\* empty text
RECURSIVE subFrom(_, _, _, _)
subFrom(ends, repl, s, i) ==
    LET hits == {j \in i..Len(s) : ends[j] >= j}
        j == Least(hits)
    IN  IF hits = {} THEN From(s, i)
        ELSE SubSeq(s, i, j - 1) \o repl \o subFrom(ends, repl, s, ends[j] + 1)

sub(ends, repl, s) == IF s = <<>> THEN s ELSE subFrom(<<>> \o ends, repl, s, 1)

(***************************************************************************)
(* RecipeScraper: the ingredient line parser.                              *)
(***************************************************************************)
note_starters ==
    << <<"s", "e", "e", " ", "i", "n", " ", "p", "o", "s", "t">>, <<"s", "e", "e", " ", "p", "o", "s", "t">>, <<"s", "e", "e", " ", "h", "e", "r", "e">>, <<"s", "e", "e", " ", "n", "o", "t", "e">>, <<"s", "e", "e", " ", "r", "e", "c", "i", "p", "e">>,
       <<"o", "p", "t", "i", "o", "n", " ", "t", "o">>, <<"o", "p", "t", "i", "o", "n", "a", "l", ":">>, <<"o", "p", "t", "i", "o", "n", "s", ":">>, <<"n", "o", "t", "e", ":">>, <<"n", "o", "t", "e", "s", ":">>,
       <<"f", "o", "r", " ", "t", "h", "e", " ">>, <<"t", "o", " ", "m", "a", "k", "e", " ">>, <<"t", "o", " ", "p", "r", "e", "p", "a", "r", "e", " ">>, <<"y", "o", "u", " ", "c", "a", "n", " ", "a", "l", "s", "o">>,
       <<"a", "l", "t", "e", "r", "n", "a", "t", "i", "v", "e", "l", "y">>, <<"s", "u", "b", "s", "t", "i", "t", "u", "t", "e">>, <<"t", "i", "p", ":">>, <<"t", "i", "p", "s", ":">> >>

\* re.split(r'\s*\(', text)[0]: the text before the first parenthesis and
\* the whitespace in front of it
BeforeParen(text) ==
    LET p == find(text, "(")
    IN  IF p = 0 THEN text ELSE rstrip(SubSeq(text, 1, p - 1))

\* The last test of _is_section_header_or_note, on the text before the
\* first parenthesis: a short line without digits, '/' and ',' whose words
\* are mostly capitalised; main_part[0] raises IndexError on an empty text
is_short_title(main_part) ==
    LET words == split(main_part)
    IN  IF /\ Len(words) <= 3
           /\ Len(main_part) <= 25
           /\ ~\E i \in 1..Len(main_part) : IsDigit(main_part[i])
           /\ ~\E i \in 1..Len(main_part) : main_part[i] \in {"/", ","}
        THEN IF main_part = <<>> THEN Raise("IndexError")
             ELSE Return(/\ IsUpperChar(main_part[1])
                         /\ 10 * Cardinality({i \in 1..Len(words) :
                                                IsUpperChar(words[i][1])})
                            >= 7 * Len(words))
        ELSE Return(FALSE)

\* RecipeScraper._is_section_header_or_note: Return(TRUE), Return(FALSE), or
\* the IndexError of main_part[0] on an empty main_part
is_section_header_or_note(raw) ==
    LET text == strip(raw)
        lowered == lower(text)
    IN  IF text = <<>> THEN Return(TRUE)
        ELSE IF \E i \in 1..Len(note_starters) : startswith(lowered, note_starters[i])
        THEN Return(TRUE)
        ELSE IF \/ startswith(lowered, <<"(", "s", "e", "e">>)
                \/ startswith(lowered, <<"(", "o", "p", "t", "i", "o", "n">>)
                \/ startswith(lowered, <<"(", "n", "o", "t", "e">>)
        THEN Return(TRUE)
        ELSE IF isupper(text) /\ Len(split(text)) <= 4 THEN Return(TRUE)
        ELSE is_short_title(strip(BeforeParen(text)))

\* re.sub(r'\s+', ' ', text)
collapse_spaces(s) ==
    sub([i \in 1..Len(s) |-> IF IsSpace(s[i]) THEN i + SpaceRun(s, i) - 1 ELSE 0],
        <<" ">>, s)

\* RecipeScraper._clean_html_text, on texts without '&' and without
\* typographic quotes and dashes (html.unescape and the replace calls find
\* nothing to change in them)
strip_leading_hyphen(text) ==
    IF text # <<>> /\ text[1] = "-" THEN From(text, skip_spaces(text, 2)) ELSE text

clean_html_text(raw) == strip(strip_leading_hyphen(strip(collapse_spaces(raw))))

\* re.sub(r'\(Note\s*:?\s*\d*\)', '', text, flags=re.IGNORECASE)
sub_note_paren(s) ==
    LET End(i) ==
            IF MatchAt(s, i, <<"(", "n", "o", "t", "e">>)
            THEN char_at(s, skip_digits(s, skip_spaces(s,
                            skip_optional(s, skip_spaces(s, i + 5), ":"))), ")")
            ELSE 0
    IN  sub([i \in 1..Len(s) |-> End(i)], <<>>, s)

\* re.sub(r'\(see\s+note\s*\d*\)', '', text, flags=re.IGNORECASE)
sub_see_note(s) ==
    LET End(i) ==
            IF /\ MatchAt(s, i, <<"(", "s", "e", "e">>)
               /\ SpaceRun(s, i + 4) >= 1
               /\ MatchAt(s, skip_spaces(s, i + 4), <<"n", "o", "t", "e">>)
            THEN char_at(s, skip_digits(s, skip_spaces(s,
                            skip_spaces(s, i + 4) + 4)), ")")
            ELSE 0
    IN  sub([i \in 1..Len(s) |-> End(i)], <<>>, s)

\* re.sub(r'\bNote\s*\d+\b', '', text, flags=re.IGNORECASE)
sub_note_number(s) ==
    LET Digit1(i) == skip_spaces(s, i + 4)
        End(i) ==
            IF /\ MatchAt(s, i, <<"n", "o", "t", "e">>)
               /\ i = 1 \/ ~IsWordChar(s[i - 1])
               /\ DigitRun(s, Digit1(i)) >= 1
               /\ \/ skip_digits(s, Digit1(i)) > Len(s)
                  \/ ~IsWordChar(s[skip_digits(s, Digit1(i))])
            THEN skip_digits(s, Digit1(i)) - 1
            ELSE 0
    IN  sub([i \in 1..Len(s) |-> End(i)], <<>>, s)

\* re.sub(r'^[/\s]+', '', text)
RECURSIVE strip_leading_slashes(_)
strip_leading_slashes(s) ==
    IF s # <<>> /\ (s[1] = "/" \/ IsSpace(s[1]))
    THEN strip_leading_slashes(Tail(s)) ELSE s

\* re.sub(r'\(\s*,\s*', '(', text)
sub_paren_comma(s) ==
    LET End(i) ==
            IF s[i] = "(" /\ char_at(s, skip_spaces(s, i + 1), ",") > 0
            THEN skip_spaces(s, skip_spaces(s, i + 1) + 1) - 1
            ELSE 0
    IN  sub([i \in 1..Len(s) |-> End(i)], <<"(">>, s)

\* re.sub(r'\(\(', '(', text)
sub_double_open(s) ==
    sub([i \in 1..Len(s) |-> IF MatchAt(s, i, <<"(", "(">>) THEN i + 1 ELSE 0], <<"(">>, s)

\* re.sub(r'\)\)', ')', text)
sub_double_close(s) ==
    sub([i \in 1..Len(s) |-> IF MatchAt(s, i, <<")", ")">>) THEN i + 1 ELSE 0], <<")">>, s)

\* re.sub(r'\(\s*\)', '', text)
sub_empty_parens(s) ==
    LET End(i) == IF s[i] = "(" THEN char_at(s, skip_spaces(s, i + 1), ")") ELSE 0
    IN  sub([i \in 1..Len(s) |-> End(i)], <<>>, s)

\* re.sub(r'\s+\)', ')', text)
sub_space_close(s) ==
    LET End(i) == IF IsSpace(s[i]) THEN char_at(s, skip_spaces(s, i), ")") ELSE 0
    IN  sub([i \in 1..Len(s) |-> End(i)], <<")">>, s)

\* re.sub(r'\(\s*$', '', text)
sub_trailing_open(s) ==
    LET End(i) == IF s[i] = "(" /\ skip_spaces(s, i + 1) > Len(s) THEN Len(s) ELSE 0
    IN  sub([i \in 1..Len(s) |-> End(i)], <<>>, s)

\* re.sub(r'^\s*\)', '', text)
strip_leading_close(s) ==
    IF char_at(s, skip_spaces(s, 1), ")") > 0 THEN From(s, skip_spaces(s, 1) + 1) ELSE s

\* re.sub(r',\s*$', '', text)
sub_trailing_comma(s) ==
    LET End(i) == IF s[i] = "," /\ skip_spaces(s, i + 1) > Len(s) THEN Len(s) ELSE 0
    IN  sub([i \in 1..Len(s) |-> End(i)], <<>>, s)

\* A first loop that never lowers the depth (without depth -= 1): a closing
\* parenthesis is kept whenever an opening one came before it
RECURSIVE drop_close_before_open(_, _)
drop_close_before_open(s, depth) ==
    LET parens == {i \in 1..Len(s) : s[i] \in {"(", ")"}}
        p == Least(parens)
        before == SubSeq(s, 1, p - 1)
    IN  IF parens = {} THEN s
        ELSE IF s[p] = "("
        THEN before \o <<"(">> \o drop_close_before_open(From(s, p + 1), depth + 1)
        ELSE IF depth > 0
        THEN before \o <<")">> \o drop_close_before_open(From(s, p + 1), depth)
        ELSE before \o drop_close_before_open(From(s, p + 1), depth)

\* The first loop of _balance_parens, from the next parenthesis on: the
\* text without the closing parentheses met at depth 0
RECURSIVE drop_unmatched_close(_, _)
drop_unmatched_close(s, depth) ==
    LET parens == {i \in 1..Len(s) : s[i] \in {"(", ")"}}
        p == Least(parens)
        before == SubSeq(s, 1, p - 1)
    IN  IF parens = {} THEN s
        ELSE IF s[p] = "("
        THEN before \o <<"(">> \o drop_unmatched_close(From(s, p + 1), depth + 1)
        ELSE IF depth > 0
        THEN before \o <<")">> \o drop_unmatched_close(From(s, p + 1), depth - 1)
        ELSE before \o drop_unmatched_close(From(s, p + 1), depth)

\* str.count(c)
count(s, c) == Cardinality({i \in 1..Len(s) : s[i] = c})

\* str.rfind(c) + 1, for a text that holds c
rfind(s, c) == CHOOSE i \in 1..Len(s) : s[i] = c /\ \A j \in (i + 1)..Len(s) : s[j] # c

\* A second loop that runs at most once (if for while)
drop_one_open(final) ==
    IF count(final, "(") > count(final, ")")
    THEN LET idx == rfind(final, "(")
         IN  SubSeq(final, 1, idx - 1) \o From(final, idx + 1)
    ELSE final

\* The second loop of _balance_parens: while there are more '(' than ')',
\* the last '(' is removed
RECURSIVE drop_last_open(_)
drop_last_open(final) ==
    IF count(final, "(") > count(final, ")")
    THEN LET idx == rfind(final, "(")
         IN  drop_last_open(SubSeq(final, 1, idx - 1) \o From(final, idx + 1))
    ELSE final

\* RecipeScraper._balance_parens
balance_parens(text) == drop_last_open(drop_unmatched_close(text, 0))

\* The substitutions of _clean_ingredient_text between _clean_html_text and
\* _balance_parens, in the code's order
CleanSteps == 13

clean_step(k, s) ==
    CASE k = 1 -> sub_note_paren(s)
      [] k = 2 -> sub_see_note(s)
      [] k = 3 -> sub_note_number(s)
      [] k = 4 -> strip_leading_slashes(s)
      [] k = 5 -> sub_paren_comma(s)
      [] k = 6 -> sub_double_open(s)
      [] k = 7 -> sub_double_close(s)
      [] k = 8 -> sub_empty_parens(s)
      [] k = 9 -> sub_space_close(s)
      [] k = 10 -> collapse_spaces(s)
      [] k = 11 -> sub_trailing_open(s)
      [] k = 12 -> strip_leading_close(s)
      [] k = 13 -> sub_trailing_comma(s)

\* The substitutions from the k-th on, each applied to the result of the
\* one before; none of them changes an empty text
RECURSIVE clean_from(_, _)
clean_from(k, s) ==
    IF s = <<>> \/ k > CleanSteps THEN s ELSE clean_from(k + 1, clean_step(k, s))

\* RecipeScraper._clean_ingredient_text
clean_ingredient_text(raw) ==
    strip(balance_parens(clean_from(1, clean_html_text(raw))))

\* The character class of INGREDIENT_PATTERN's quantity group, [\d\s./-],
\* without the Unicode fractions, which the texts of the model do not hold
IsQuantityChar(c) == IsDigit(c) \/ IsSpace(c) \/ c \in {".", "/", "-"}

RECURSIVE QuantityRun(_, _)
QuantityRun(s, p) ==
    IF p <= Len(s) /\ IsQuantityChar(s[p]) THEN 1 + QuantityRun(s, p + 1) ELSE 0

\* The alternatives of INGREDIENT_PATTERN's unit group in the order the
\* regex tries them, an optional 's' being tried before its absence:
\* head, then (when tail is not empty) \s* and tail, then \b when boundary
Alt(head, tail, boundary) == [head |-> head, tail |-> tail, boundary |-> boundary]

UNIT_ALTERNATIVES ==
    << Alt(<<"c", "u", "p", "s">>, <<>>, FALSE), Alt(<<"c", "u", "p">>, <<>>, FALSE),
       Alt(<<"t", "b", "s", "p">>, <<>>, FALSE),
       Alt(<<"t", "a", "b", "l", "e", "s", "p", "o", "o", "n", "s">>, <<>>, FALSE), Alt(<<"t", "a", "b", "l", "e", "s", "p", "o", "o", "n">>, <<>>, FALSE),
       Alt(<<"t", "s", "p">>, <<>>, FALSE),
       Alt(<<"t", "e", "a", "s", "p", "o", "o", "n", "s">>, <<>>, FALSE), Alt(<<"t", "e", "a", "s", "p", "o", "o", "n">>, <<>>, FALSE),
       Alt(<<"o", "z">>, <<>>, FALSE),
       Alt(<<"o", "u", "n", "c", "e", "s">>, <<>>, FALSE), Alt(<<"o", "u", "n", "c", "e">>, <<>>, FALSE),
       Alt(<<"p", "o", "u", "n", "d", "s">>, <<>>, FALSE), Alt(<<"p", "o", "u", "n", "d">>, <<>>, FALSE),
       Alt(<<"l", "b", "s">>, <<>>, FALSE), Alt(<<"l", "b">>, <<>>, FALSE),
       Alt(<<"g", "r", "a", "m", "s">>, <<>>, FALSE), Alt(<<"g", "r", "a", "m">>, <<>>, FALSE),
       Alt(<<"g">>, <<>>, TRUE), Alt(<<"k", "g">>, <<>>, TRUE), Alt(<<"m", "l">>, <<>>, TRUE),
       Alt(<<"l", "i", "t", "e", "r", "s">>, <<>>, FALSE), Alt(<<"l", "i", "t", "e", "r">>, <<>>, FALSE),
       Alt(<<"l">>, <<>>, TRUE),
       Alt(<<"p", "i", "n", "t", "s">>, <<>>, FALSE), Alt(<<"p", "i", "n", "t">>, <<>>, FALSE),
       Alt(<<"q", "u", "a", "r", "t", "s">>, <<>>, FALSE), Alt(<<"q", "u", "a", "r", "t">>, <<>>, FALSE),
       Alt(<<"g", "a", "l", "l", "o", "n", "s">>, <<>>, FALSE), Alt(<<"g", "a", "l", "l", "o", "n">>, <<>>, FALSE),
       Alt(<<"f", "l">>, <<"o", "z">>, FALSE),
       Alt(<<"f", "l", "u", "i", "d">>, <<"o", "u", "n", "c", "e", "s">>, FALSE), Alt(<<"f", "l", "u", "i", "d">>, <<"o", "u", "n", "c", "e">>, FALSE),
       Alt(<<"c", "l", "o", "v", "e", "s">>, <<>>, FALSE), Alt(<<"c", "l", "o", "v", "e">>, <<>>, FALSE),
       Alt(<<"c", "a", "n", "s">>, <<>>, FALSE), Alt(<<"c", "a", "n">>, <<>>, FALSE),
       Alt(<<"p", "a", "c", "k", "a", "g", "e", "s">>, <<>>, FALSE), Alt(<<"p", "a", "c", "k", "a", "g", "e">>, <<>>, FALSE),
       Alt(<<"p", "k", "g", "s">>, <<>>, FALSE), Alt(<<"p", "k", "g">>, <<>>, FALSE),
       Alt(<<"b", "u", "n", "c", "h">>, <<>>, FALSE), Alt(<<"h", "e", "a", "d">>, <<>>, FALSE),
       Alt(<<"s", "t", "a", "l", "k">>, <<>>, FALSE), Alt(<<"s", "t", "a", "l", "k", "s">>, <<>>, FALSE),
       Alt(<<"s", "p", "r", "i", "g", "s">>, <<>>, FALSE), Alt(<<"s", "p", "r", "i", "g">>, <<>>, FALSE),
       Alt(<<"s", "l", "i", "c", "e", "s">>, <<>>, FALSE), Alt(<<"s", "l", "i", "c", "e">>, <<>>, FALSE),
       Alt(<<"p", "i", "e", "c", "e", "s">>, <<>>, FALSE), Alt(<<"p", "i", "e", "c", "e">>, <<>>, FALSE),
       Alt(<<"p", "i", "n", "c", "h">>, <<>>, FALSE), Alt(<<"d", "a", "s", "h">>, <<>>, FALSE) >>

\* The index of the last character of the alternative matched at index p,
\* 0 when it does not match there
UnitEnd(s, p, alt) ==
    LET h == p + Len(alt.head)
        a == h + SpaceRun(s, h)
        e == IF alt.tail = <<>> THEN h - 1 ELSE a + Len(alt.tail) - 1
    IN  IF /\ MatchAt(s, p, alt.head)
           /\ alt.tail = <<>> \/ MatchAt(s, a, alt.tail)
           /\ alt.boundary => (e = Len(s) \/ ~IsWordChar(s[e + 1]))
        THEN e ELSE 0

\* r'\s*(?:of\s+)?(?P<item>.+)' from index p: the index where the item
\* group starts, 0 when the rest of the pattern does not match; every
\* quantifier is greedy and gives back only what the item's one character
\* needs
ItemStart(s, p) ==
    LET a == p + SpaceRun(s, p)
        k == SpaceRun(s, a + 2)
    IN  IF MatchAt(s, a, <<"o", "f">>) /\ k >= 1
        THEN IF a + 2 + k <= Len(s) THEN a + 2 + k
             ELSE IF k >= 2 THEN a + 1 + k
             ELSE a
        ELSE IF a <= Len(s) THEN a
        ELSE IF a > p THEN a - 1
        ELSE 0

\* The least member of a set of indices, 0 for the empty set; the greatest
\* member of a non-empty set
LeastOrZero(S) == IF S = {} THEN 0 ELSE Least(S)
Greatest(S) == CHOOSE i \in S : \A j \in S : j <= i

\* A unit group that ends at index e (0: no match) leaves an item
LeavesItem(s, e) == e > 0 /\ ItemStart(s, e + 1) > 0

\* The first unit alternative, in the regex's order, that matches at index
\* p and leaves an item; 0 when the unit group takes no part
UnitChoice(s, p) ==
    LeastOrZero({k \in 1..Len(UNIT_ALTERNATIVES) :
                   LeavesItem(s, UnitEnd(s, p, UNIT_ALTERNATIVES[k]))})

\* The pattern matches with its unit group starting at index p
MatchesFrom(s, p) == UnitChoice(s, p) > 0 \/ ItemStart(s, p) > 0

\* The pattern matches with a quantity group of q characters (0: the group
\* takes no part)
MatchesWithQuantity(s, q) ==
    \E w \in 0..SpaceRun(s, q + 1) : MatchesFrom(s, q + 1 + w)

\* The groups of the match whose quantity group has q characters and whose
\* unit group spans the indices p..e (e = p - 1: the group takes no part)
Groups(text, q, p, e) ==
    [quantity |-> IF q = 0 THEN None ELSE Some(SubSeq(text, 1, q)),
     unit |-> IF e < p THEN None ELSE Some(SubSeq(text, p, e)),
     item |-> From(text, ItemStart(text, e + 1))]

\* The index of the last character of the unit group that starts at index p
\* with alternative k (0: the group takes no part)
UnitGroupEnd(s, p, k) ==
    IF k = 0 THEN p - 1 ELSE UnitEnd(s, p, UNIT_ALTERNATIVES[k])

\* The match with the unit group at index p: the first alternative
GroupsFrom(text, q, p) == Groups(text, q, p, UnitGroupEnd(text, p, UnitChoice(text, p)))

\* The match with a quantity group of q characters: the longest whitespace
GroupsWithQuantity(text, q) ==
    GroupsFrom(text, q, q + 1 + Greatest({w \in 0..SpaceRun(text, q + 1) :
                                            MatchesFrom(text, q + 1 + w)}))

\* The match among the quantity groups qs that match: the longest
FirstMatch(text, qs) ==
    IF qs = {} THEN None ELSE Some(GroupsWithQuantity(text, Greatest(qs)))

\* INGREDIENT_PATTERN.match(text): None, or the groups quantity, unit, item
\* of the match the backtracking finds first: the longest quantity, then the
\* longest whitespace, then the first unit alternative
INGREDIENT_PATTERN_match(text) ==
    FirstMatch(text, {q \in 0..QuantityRun(text, 1) : MatchesWithQuantity(text, q)})

RatAdd(a, b) == Rat(a[1] * b[2] + b[1] * a[2], a[2] * b[2])

Digits == <<"0", "1", "2", "3", "4", "5", "6", "7", "8", "9">>
DigitVal(c) == (CHOOSE i \in 1..10 : Digits[i] = c) - 1

\* int() of a string of digits ('' counting as 0)
RECURSIVE int_of(_)
int_of(s) ==
    IF s = <<>> THEN 0
    ELSE 10 * int_of(SubSeq(s, 1, Len(s) - 1)) + DigitVal(s[Len(s)])

RECURSIVE Pow10(_)
Pow10(n) == IF n = 0 THEN 1 ELSE 10 * Pow10(n - 1)

\* float(s) of a text made of digits, '.', '-' and '/': None stands for the
\* ValueError, otherwise the value
float_of(s) ==
    LET negative == s # <<>> /\ s[1] = "-"
        body == IF negative THEN Tail(s) ELSE s
        dot == find(body, ".")
        digits == SelectSeq(body, IsDigit)
        places == IF dot = 0 THEN 0 ELSE Len(body) - dot
    IN  IF /\ digits # <<>>
           /\ \A i \in 1..Len(body) : IsDigit(body[i]) \/ body[i] = "."
           /\ count(body, ".") <= 1
        THEN Rat((IF negative THEN -1 ELSE 1) * int_of(digits), Pow10(places))
        ELSE None

\* r'\d+(?:\.\d+)?' at index p: the index of its last character, 0 when it
\* does not match
NumberEnd(s, p) ==
    LET e == p + DigitRun(s, p) - 1
    IN  IF e < p THEN 0
        ELSE IF e + 1 <= Len(s) /\ s[e + 1] = "." /\ DigitRun(s, e + 2) >= 1
        THEN e + 1 + DigitRun(s, e + 2)
        ELSE e

\* The range pattern after its first number, which ends at index e1 (0: no
\* number)
range_after(s, e1) ==
    LET hyphen == skip_spaces(s, e1 + 1)
        second == skip_spaces(s, hyphen + 1)
    IN  IF e1 > 0 /\ char_at(s, hyphen, "-") > 0 /\ NumberEnd(s, second) > 0
        THEN Some(<<SubSeq(s, 1, e1), SubSeq(s, second, NumberEnd(s, second))>>)
        ELSE None

\* re.match(r'(\d+(?:\.\d+)?)\s*-\s*(\d+(?:\.\d+)?)', s): None, or the two
\* groups
range_match(s) == range_after(s, NumberEnd(s, 1))

\* total += value, a value that raised ValueError (None) adding nothing
or_zero(value) == IF value = None THEN <<0, 1>> ELSE value

\* float(num) / float(denom), ValueError and ZeroDivisionError adding
\* nothing
quotient_or_zero(num, denom) ==
    IF num = None \/ denom = None THEN <<0, 1>>
    ELSE IF denom[1] = 0 THEN <<0, 1>>
    ELSE RatDiv(num, denom)

\* What one whitespace-separated part adds to the total in _parse_quantity;
\* part.split('/') of more than one '/' raises ValueError too
part_value(part) ==
    LET slash == find(part, "/")
    IN  IF slash = 0 THEN or_zero(float_of(part))
        ELSE IF count(part, "/") # 1 THEN <<0, 1>>
        ELSE quotient_or_zero(float_of(SubSeq(part, 1, slash - 1)),
                              float_of(From(part, slash + 1)))

RECURSIVE sum_parts(_)
sum_parts(parts) ==
    IF parts = <<>> THEN <<0, 1>>
    ELSE RatAdd(part_value(parts[1]), sum_parts(Tail(parts)))

\* return total if total > 0 else None
positive_or_none(total) == IF total[1] > 0 THEN total ELSE None

\* _parse_quantity once the range pattern has been tried (m: its match)
quantity_value(m, qty_str) ==
    IF m # None
    THEN RatDiv(RatAdd(float_of(m[1][1]), float_of(m[1][2])), <<2, 1>>)
    ELSE positive_or_none(sum_parts(split(qty_str)))

\* RecipeScraper._parse_quantity, on texts without Unicode fractions
parse_quantity(qty_str) ==
    IF qty_str = <<>> THEN None
    ELSE quantity_value(IF find(qty_str, "-") > 0 /\ qty_str[1] # "-"
                        THEN range_match(strip(qty_str)) ELSE None,
                        qty_str)

\* The Ingredient _parse_ingredient builds from the groups of the match
ingredient_of_groups(groups, original) ==
    Ingredient(IF groups.quantity # None /\ groups.quantity[1] # <<>>
               THEN parse_quantity(strip(groups.quantity[1])) ELSE None,
               groups.unit,
               clean_ingredient_text(strip(groups.item)),
               original)

\* The Ingredient _parse_ingredient builds from the cleaned text and the
\* pattern's match on it
ingredient_of_match(match, text, original) ==
    IF match = None THEN Ingredient(None, None, text, original)
    ELSE ingredient_of_groups(match[1], original)

\* _parse_ingredient after the cleaning: the second noise test, then the
\* pattern
parse_cleaned(text, noise, original) ==
    IF text = <<>> THEN Return(None)
    ELSE IF noise.raised THEN noise
    ELSE IF noise.value THEN Return(None)
    ELSE Return(Some(ingredient_of_match(INGREDIENT_PATTERN_match(text),
                                         text, original)))

\* _parse_ingredient after the first noise test
parse_text(text, original) ==
    parse_cleaned(text, is_section_header_or_note(text), original)

\* _parse_ingredient on the stripped line, noise being the outcome of the
\* first noise test
parse_line(original, noise) ==
    IF noise.raised THEN noise
    ELSE IF noise.value THEN Return(None)
    ELSE parse_text(clean_ingredient_text(original), original)

\* _parse_ingredient with the line stripped
parse_stripped(original) == parse_line(original, is_section_header_or_note(original))

\* RecipeScraper._parse_ingredient: Return(None) for a line that is skipped,
\* Return(<<ingredient>>), or the exception raised by the noise test
parse_ingredient(raw) == parse_stripped(strip(raw))

(***************************************************************************)
(* Bounds of the model.                                                    *)
(***************************************************************************)
MaxIngs == 2        \* ingredients of the initial Recipe
MaxRecipes == 3     \* Recipe objects alive: the initial one and the results
MaxServings == 2    \* servings of the initial Recipe
MaxNum == 3         \* numerator of the quantity passed to convert_unit

(***************************************************************************)
(* The Recipe model: a caller that holds a current Recipe and replaces it  *)
(* by the result of a transform, in any order (recipe_cli.main, app.py).   *)
(***************************************************************************)
\* Ingredients as the parser builds them: a positive quantity or none
Pantry ==
    << Ingredient(<<1, 10>>, Some(<<"m", "l">>), "vanilla", "0.1 ml vanilla"),
       Ingredient(<<2, 1>>, Some(<<"C", "u", "p", "s">>), "flour", "2 Cups flour"),
       Ingredient(<<1, 2500>>, Some(<<"g">>), "saffron", "0.0004 g saffron"),
       Ingredient(<<3, 1>>, Some(<<"l", "b">>), "beef", "3 lb beef"),
       Ingredient(<<3, 1>>, Some(<<"c", "l", "o", "v", "e", "s">>), "garlic", "3 cloves garlic"),
       Ingredient(None, None, "salt", "salt") >>

\* The ingredient lists of the initial Recipe: n consecutive entries of the
\* pantry, starting anywhere (and wrapping around)
InitIngredientLists ==
    { [i \in 1..n |-> Pantry[((start + i - 2) % Len(Pantry)) + 1]] :
        start \in 1..Len(Pantry), n \in 0..MaxIngs }

\* The factors a caller passes to scale(), all positive
Factors == { <<1, 1>>, <<3, 2>> }

NoCall == [method |-> "none", receiver |-> 0, factor |-> <<1, 1>>, result |-> 0]

RecipeIdle == ingHeap = <<>> /\ recHeap = <<>> /\ lastCall = NoCall
ConvIdle == convIn = <<>> /\ convOut = <<>>
ParseIdle == parseIn = <<>> /\ parseOut = <<>>
ScrapeIdle == page = <<>> /\ pc = "Idle" /\ attempted = <<>> /\ result = <<>>
HelperIdle ==
    helperIn = <<>> /\ helperOut = <<>> /\ headingLoop = <<>> /\ heuristicLocals = <<>>
ApiIdle == app = <<>> /\ response = <<>>

InitRecipe ==
    /\ ingHeap \in InitIngredientLists
    /\ \E servings \in {None} \cup {Some(k) : k \in 1..MaxServings} :
         recHeap = << Recipe("Soup", servings, Some("10m"), None, Some("1h 5m"),
                             [i \in 1..Len(ingHeap) |-> i],
                             <<"Chop.", "Boil.">>, Some("http://x/soup")) >>
    /\ lastCall = NoCall
    /\ ConvIdle /\ ParseIdle /\ ScrapeIdle /\ HelperIdle /\ ApiIdle

\* The caller's current_recipe: each call is made on it and its result
\* replaces it (the earlier Recipe objects stay in the heap)
current_recipe == Len(recHeap)

\* current_recipe = current_recipe.method(...)
Call(method, r, factor, heaps) ==
    /\ Len(recHeap) < MaxRecipes
    /\ ingHeap' = heaps[1]
    /\ recHeap' = heaps[2]
    /\ lastCall' = [method |-> method, receiver |-> r, factor |-> factor,
                    result |-> Len(heaps[2])]
    /\ UNCHANGED <<convVars, parseVars, scrapeVars, helperVars, apiVars>>

Scale ==
    \E r \in {current_recipe}, f \in Factors :
        Call("scale", r, f, Recipe_scale(ingHeap, recHeap, r, f))

Halve ==
    \E r \in {current_recipe} :
        Call("halve", r, <<1, 2>>, Recipe_halve(ingHeap, recHeap, r))

Double ==
    \E r \in {current_recipe} :
        Call("double", r, <<2, 1>>, Recipe_double(ingHeap, recHeap, r))

Triple ==
    \E r \in {current_recipe} :
        Call("triple", r, <<3, 1>>, Recipe_triple(ingHeap, recHeap, r))

ConvertToMetric ==
    \E r \in {current_recipe} :
        Call("convert_to_metric", r, <<1, 1>>,
             Recipe_convert_to_metric(ingHeap, recHeap, r))

ConvertToImperial ==
    \E r \in {current_recipe} :
        Call("convert_to_imperial", r, <<1, 1>>,
             Recipe_convert_to_imperial(ingHeap, recHeap, r))

NextRecipe ==
    \/ Scale
    \/ Halve
    \/ Double
    \/ Triple
    \/ ConvertToMetric
    \/ ConvertToImperial

SpecRecipe == InitRecipe /\ [][NextRecipe]_vars

(***************************************************************************)
(* Properties of the Recipe model.                                         *)
(***************************************************************************)
\* A Recipe as a value: its fields, with the Ingredient objects read from
\* the heap ih (what the dataclass equality compares)
RecipeValue(ih, rec) ==
    [rec EXCEPT !.ingredients = [i \in 1..Len(rec.ingredients) |-> ih[rec.ingredients[i]]]]

Receiver == RecipeValue(ingHeap, recHeap[lastCall.receiver])
Result == RecipeValue(ingHeap, recHeap[lastCall.result])
ScaleMethods == {"scale", "halve", "double", "triple"}

\* C5: Recipe.scale(1.0) returns a Recipe equal to the receiver, for every
\* Recipe, also one with an ingredient of quantity 0 or with servings 0.
C5_ScaleByOneIsIdentity ==
    (lastCall.method = "scale" /\ lastCall.factor = <<1, 1>>) => Result = Receiver

\* C6: no transform mutates a Recipe that exists: over every step, every
\* Recipe object and every Ingredient object it refers to keeps its fields.
C6_NoMutation ==
    [][\A r \in DOMAIN recHeap :
          RecipeValue(ingHeap', recHeap'[r]) = RecipeValue(ingHeap, recHeap[r])]_vars

\* C6 witness: a conversion has returned a Recipe that shares an Ingredient
\* object with its receiver and replaces another one.
C6_Witness ==
    /\ lastCall.method = "convert_to_metric"
    /\ \E i \in DOMAIN Result.ingredients :
          recHeap[lastCall.result].ingredients[i] = recHeap[lastCall.receiver].ingredients[i]
    /\ \E i \in DOMAIN Result.ingredients :
          Result.ingredients[i] # Receiver.ingredients[i]

\* C7: scale (and halve, double, triple) leaves name, timings, instructions
\* and source_url unchanged and returns the ingredients in the same number
\* and order, each with its unit, item and original_text unchanged.
C7_ScaleFrame ==
    lastCall.method \in ScaleMethods =>
        /\ Result.name = Receiver.name
        /\ Result.prep_time = Receiver.prep_time
        /\ Result.cook_time = Receiver.cook_time
        /\ Result.total_time = Receiver.total_time
        /\ Result.instructions = Receiver.instructions
        /\ Result.source_url = Receiver.source_url
        /\ Len(Result.ingredients) = Len(Receiver.ingredients)
        /\ \A i \in DOMAIN Receiver.ingredients :
              /\ Result.ingredients[i].unit = Receiver.ingredients[i].unit
              /\ Result.ingredients[i].item = Receiver.ingredients[i].item
              /\ Result.ingredients[i].original_text = Receiver.ingredients[i].original_text

\* C7 witness: a scale by 3/2 of a Recipe with two ingredients, one with a
\* quantity (which changed) and one without.
C7_Witness ==
    /\ lastCall.method = "scale" /\ lastCall.factor = <<3, 2>>
    /\ Len(Receiver.ingredients) >= 2
    /\ \E i \in DOMAIN Receiver.ingredients :
          Result.ingredients[i].quantity # Receiver.ingredients[i].quantity
    /\ \E i \in DOMAIN Receiver.ingredients : Receiver.ingredients[i].quantity = None

\* C8: starting from servings absent or positive and scaling by positive
\* factors only, the servings of every Recipe are absent or a positive
\* integer, never 0.
C8_ServingsAbsentOrPositive ==
    \A r \in DOMAIN recHeap : recHeap[r].servings = None \/ recHeap[r].servings[1] > 0

\* The units convert_to_metric gives an ingredient of a table: the small one
\* below 1000, the large one from 1000 (of the small unit) on
InMetricUnits(ing, small, large) ==
    \/ ing.unit = Some(small) /\ ~RatGeq(ing.quantity, <<1000, 1>>)
    \/ ing.unit = Some(large) /\ RatGeq(ing.quantity, <<1, 1>>)

\* The ingredients of the receiver of a convert_to_metric call come back in
\* metric units (those of quantity 0 too, when zeros is TRUE)
MetricWhere(zeros) ==
    lastCall.method = "convert_to_metric" =>
        \A i \in DOMAIN Receiver.ingredients :
            LET before == Receiver.ingredients[i]
                after == Result.ingredients[i]
            IN  (before.quantity # None /\ before.unit # None
                 /\ (zeros \/ before.quantity[1] # 0)) =>
                  /\ lower(before.unit[1]) \in DOMAIN VOLUME_TO_ML =>
                        InMetricUnits(after, <<"m", "l">>, <<"L">>)
                  /\ lower(before.unit[1]) \in DOMAIN WEIGHT_TO_G =>
                        InMetricUnits(after, <<"g">>, <<"k", "g">>)

\* C11: after convert_to_metric every ingredient that had a quantity and a
\* volume-table unit has unit ml with a quantity below 1000 or unit L (from
\* 1000 ml on), and every ingredient that had a quantity and a weight-table
\* unit has unit g below 1000 or unit kg; no imperial unit remains on it.
C11_MetricUnitsAfterConversion == MetricWhere(TRUE)

\* The same for the ingredients whose quantity is not 0
C11_NonZeroQuantity == MetricWhere(FALSE)

ConversionMethods == {"convert_to_metric", "convert_to_imperial"}

\* A unit that is absent or in neither conversion table
Unconvertible(unit) ==
    unit = None \/ lower(unit[1]) \notin DOMAIN VOLUME_TO_ML \cup DOMAIN WEIGHT_TO_G

\* C12: convert_to_metric and convert_to_imperial leave name, servings,
\* timings, instructions and source_url unchanged, keep the number and the
\* order of the ingredients, and return unchanged every ingredient whose unit
\* is absent or in neither table; on every Recipe a sequence of calls reaches.
C12_ConversionFrame ==
    lastCall.method \in ConversionMethods =>
        /\ Result.name = Receiver.name
        /\ Result.servings = Receiver.servings
        /\ Result.prep_time = Receiver.prep_time
        /\ Result.cook_time = Receiver.cook_time
        /\ Result.total_time = Receiver.total_time
        /\ Result.instructions = Receiver.instructions
        /\ Result.source_url = Receiver.source_url
        /\ Len(Result.ingredients) = Len(Receiver.ingredients)
        /\ \A i \in DOMAIN Receiver.ingredients :
              /\ Result.ingredients[i].item = Receiver.ingredients[i].item
              /\ Result.ingredients[i].original_text = Receiver.ingredients[i].original_text
              /\ Unconvertible(Receiver.ingredients[i].unit) =>
                    Result.ingredients[i] = Receiver.ingredients[i]

\* C12 witness: a conversion of a Recipe that is itself the result of a call
\* has changed one ingredient and returned one with a count unit.
C12_Witness ==
    /\ lastCall.method \in ConversionMethods
    /\ lastCall.receiver > 1
    /\ \E i \in DOMAIN Receiver.ingredients :
          Result.ingredients[i] # Receiver.ingredients[i]
    /\ \E i \in DOMAIN Receiver.ingredients :
          /\ Receiver.ingredients[i].unit = Some(<<"c", "l", "o", "v", "e", "s">>)
          /\ Result.ingredients[i] = Receiver.ingredients[i]

\* The Recipe that a further convert_to_metric on the result of the last
\* call returns, as a value
MetricAgain ==
    LET heaps == Recipe_convert_to_metric(ingHeap, recHeap, lastCall.result)
    IN  RecipeValue(heaps[1], heaps[2][Len(heaps[2])])

\* C25: convert_to_metric is idempotent on recipes: on the Recipe that
\* convert_to_metric returned, convert_to_metric returns a Recipe whose
\* ingredients have the same units and quantities, those promoted to 'L' or
\* 'kg' and those whose quantity was rounded to 0 too.
C25_MetricIsIdempotent ==
    lastCall.method = "convert_to_metric" =>
        /\ Len(MetricAgain.ingredients) = Len(Result.ingredients)
        /\ \A i \in DOMAIN Result.ingredients :
              /\ MetricAgain.ingredients[i].unit = Result.ingredients[i].unit
              /\ MetricAgain.ingredients[i].quantity = Result.ingredients[i].quantity

\* C25 witness: convert_to_metric has returned a Recipe with an ingredient
\* that it promoted to kg and an ingredient whose quantity it rounded to 0.
C25_Witness ==
    /\ lastCall.method = "convert_to_metric"
    /\ \E i \in DOMAIN Result.ingredients :
          /\ Result.ingredients[i].unit = Some(<<"k", "g">>)
          /\ Receiver.ingredients[i].unit # Some(<<"k", "g">>)
    /\ \E i \in DOMAIN Result.ingredients :
          /\ Result.ingredients[i].quantity # None
          /\ Result.ingredients[i].quantity[1] = 0
          /\ Receiver.ingredients[i].quantity[1] # 0

(***************************************************************************)
(* Ingredient.convert_unit as a function of its inputs: one call on an     *)
(* Ingredient and a target unit drawn from bounded sets.                   *)
(***************************************************************************)
ConvQuantities == {None} \cup {Rat(n, d) : n \in 0..MaxNum, d \in {1, 3, 1000}}

ConvUnits ==
    {None} \cup
    {Some(u) : u \in {<<>>, <<"c", "u", "p", "s">>, <<"C", "u", "p", "s">>,
                      <<"t", "s", "p">>, <<"f", "l", " ", "o", "z">>,
                      <<"m", "l">>, <<"l">>, <<"g">>, <<"o", "z">>, <<"l", "b">>,
                      <<"c", "l", "o", "v", "e">>}}

ConvTargets ==
    {<<"m", "l">>, <<"L">>, <<"c", "u", "p", "s">>, <<"C", "u", "p", "s">>,
     <<"t", "s", "p">>, <<"g">>, <<"k", "g">>, <<"o", "z">>, <<"O", "z">>,
     <<"s", "p", "o", "o", "n">>, <<>>}

InitConv ==
    /\ \E q \in ConvQuantities, u \in ConvUnits, t \in ConvTargets :
          convIn = <<Ingredient(q, u, "water", "some water"), t>>
    /\ convOut = <<>>
    /\ RecipeIdle /\ ParseIdle /\ ScrapeIdle /\ HelperIdle /\ ApiIdle

ConvertUnit ==
    /\ convOut = <<>>
    /\ convOut' = <<Ingredient_convert_unit(convIn[1], convIn[2])>>
    /\ UNCHANGED <<convIn, recipeVars, parseVars, scrapeVars, helperVars, apiVars>>

NextConv == ConvertUnit

SpecConv == InitConv /\ [][NextConv]_vars

\* Both units, compared in lower case, are keys of one table
SameTable(unit, target) ==
    \/ lower(unit) \in DOMAIN VOLUME_TO_ML /\ lower(target) \in DOMAIN VOLUME_TO_ML
    \/ lower(unit) \in DOMAIN WEIGHT_TO_G /\ lower(target) \in DOMAIN WEIGHT_TO_G

\* The factor of a unit that is a key of one of the tables
FactorOf(unit) ==
    IF lower(unit) \in DOMAIN VOLUME_TO_ML THEN VOLUME_TO_ML[lower(unit)]
    ELSE WEIGHT_TO_G[lower(unit)]

\* r is a multiple of 1/1000 and no other multiple is nearer to x
NearestThousandth(r, x) ==
    /\ 1000 % r[2] = 0
    /\ LET whole == x[1] \div x[2]
           rest == x[1] % x[2]
           off == r[1] * (1000 \div r[2]) - 1000 * whole
       IN  /\ off \in 0..1000
           /\ 2 * Abs(off * x[2] - 1000 * rest) <= x[2]

\* C9: convert_unit returns the ingredient itself, unchanged, whenever it
\* has no quantity, has no unit, or its unit and the target are not both
\* keys of one table; and no call raises, whatever the target string.
C9_UnconvertibleIsIdentity ==
    convOut # <<>> =>
        /\ ~convOut[1].raised
        /\ ( \/ convIn[1].quantity = None
             \/ convIn[1].unit = None
             \/ ~SameTable(convIn[1].unit[1], convIn[2]) )
           => (convOut[1].same /\ convOut[1].value = convIn[1])

\* C9 witness: a call with a quantity, a unit of the volume table and a
\* target that no table knows has returned.
C9_Witness ==
    /\ convOut # <<>>
    /\ TruthyNum(convIn[1].quantity)
    /\ convIn[1].unit = Some(<<"c", "u", "p", "s">>)
    /\ convIn[2] = <<"s", "p", "o", "o", "n">>

\* C10: when the ingredient has a quantity and its unit and the target are
\* both keys of one table, convert_unit returns a new Ingredient with
\* quantity = quantity * factor(source) / factor(target) rounded to 3
\* decimals, unit = the target exactly as passed, item and original_text
\* unchanged.
C10_ConvertedQuantityAndUnit ==
    ( /\ convOut # <<>>
      /\ convIn[1].quantity # None
      /\ convIn[1].unit # None
      /\ SameTable(convIn[1].unit[1], convIn[2]) )
    => /\ ~convOut[1].raised
       /\ convOut[1].value.unit = Some(convIn[2])
       /\ convOut[1].value.item = convIn[1].item
       /\ convOut[1].value.original_text = convIn[1].original_text
       /\ convOut[1].value.quantity # None
       /\ NearestThousandth(convOut[1].value.quantity,
                            RatDiv(RatMul(convIn[1].quantity, FactorOf(convIn[1].unit[1])),
                                   FactorOf(convIn[2])))

\* The same, for an ingredient whose quantity is not 0
C10_NonZeroQuantity ==
    (convIn[1].quantity # None /\ convIn[1].quantity[1] # 0)
        => C10_ConvertedQuantityAndUnit


(***************************************************************************)
(* RecipeScraper._parse_ingredient as a function of its input: one call on *)
(* a line put together from a few fragments.                               *)
(***************************************************************************)
MaxFrags == 3       \* fragments in the line passed to _parse_ingredient

LineFragments ==
    { <<"2", " ">>, <<"1", "/", "2", " ">>, <<"c", "u", "p", "s", " ">>, <<"o", "f", " ">>, <<"f", "l", "o", "u", "r">>, <<"S", "a", "l", "t">>, <<"n", "o", "t", "e">>,
      <<"(">>, <<")">>, <<",", " ">>, <<"-">> }

\* The lines of at most n fragments
RECURSIVE LinesOf(_)
LinesOf(n) ==
    IF n = 0 THEN {<<>>}
    ELSE LET shorter == LinesOf(n - 1)
         IN  shorter \cup {l \o f : l \in shorter, f \in LineFragments}

InitParse ==
    /\ parseIn \in LinesOf(MaxFrags)
    /\ parseOut = <<>>
    /\ RecipeIdle /\ ConvIdle /\ ScrapeIdle /\ HelperIdle /\ ApiIdle

ParseIngredient ==
    /\ parseOut = <<>>
    /\ parseOut' = <<parse_ingredient(parseIn)>>
    /\ UNCHANGED <<parseIn, recipeVars, convVars, scrapeVars, helperVars, apiVars>>

NextParse == ParseIngredient

SpecParse == InitParse /\ [][NextParse]_vars

\* C4: _parse_ingredient never raises: every line yields None (Noise) or an
\* Ingredient; and a line that is not Noise and in which the pattern finds
\* neither a quantity nor a unit yields an Ingredient with no quantity, no
\* unit and the cleaned line as item
C4_ParseIsTotal ==
    parseOut # <<>> =>
        LET out == parseOut[1]
            text == clean_ingredient_text(strip(parseIn))
            m == INGREDIENT_PATTERN_match(text)
        IN  /\ ~out.raised
            /\ (/\ out.value # None
                /\ m = None \/ (m[1].quantity = None /\ m[1].unit = None))
               => /\ out.value[1].quantity = None
                  /\ out.value[1].unit = None
                  /\ out.value[1].item = text

\* C15: every Ingredient that _parse_ingredient returns has a non-empty
\* item; a line whose item would be empty after the match and the second
\* cleaning (only a dash or stray punctuation after the quantity and the
\* unit) is discarded.
C15_ItemIsNotEmpty ==
    parseOut # <<>> =>
        LET out == parseOut[1]
        IN  (~out.raised /\ out.value # None) => out.value[1].item # <<>>

\* The noise rules on a text: it is empty, starts with a note introducer,
\* opens with '(see', '(option' or '(note', is all upper case with at most
\* 4 words, or its part before a parenthesis is a short title.  A text with
\* nothing before its parenthesis does not start with an upper-case
\* letter: no rule holds for it
noise_rule(text) ==
    LET answer == is_section_header_or_note(text)
    IN  IF answer.raised THEN FALSE ELSE answer.value

\* Noise: a rule holds for the trimmed line, or the cleaned line is empty
\* or a rule holds for it
is_noise(raw, cleaned) == noise_rule(raw) \/ cleaned = <<>> \/ noise_rule(cleaned)

\* C18: _parse_ingredient returns Noise (None) exactly when the trimmed
\* line, or the line after cleaning, is empty or satisfies a noise rule,
\* the rules being tried before the cleaning and again after it; every
\* other line yields an Ingredient.
C18_NoiseExactlyByTheRules ==
    parseOut # <<>> =>
        /\ ~parseOut[1].raised
        /\ parseOut[1].value = None
             <=> is_noise(strip(parseIn), clean_ingredient_text(strip(parseIn)))

\* The same for the calls that return
C18_WhenTheCallReturns ==
    (parseOut # <<>> /\ ~parseOut[1].raised) =>
        (parseOut[1].value = None
           <=> is_noise(strip(parseIn), clean_ingredient_text(strip(parseIn))))

(***************************************************************************)
(* RecipeScraper: structured data (JSON-LD).  A JSON value is a pair of   *)
(* its type (str, num, null, list, dict) and its value: a text, a number,  *)
(* a sequence of values, a sequence of <<key, value>> pairs.               *)
(***************************************************************************)
JStr(s) == <<"str", s>>
JNum(n) == <<"num", n>>
JNull == <<"null", 0>>
JList(items) == <<"list", items>>
JDict(pairs) == <<"dict", pairs>>

\* key in data, data.get(key, default), data.values()
has_key(data, key) == \E i \in 1..Len(data[2]) : data[2][i][1] = key
get(data, key, default) ==
    IF has_key(data, key)
    THEN data[2][CHOOSE i \in 1..Len(data[2]) : data[2][i][1] = key][2]
    ELSE default
values(data) == [i \in 1..Len(data[2]) |-> data[2][i][2]]

\* bool(value)
truthy(j) ==
    CASE j[1] = "null" -> FALSE
      [] j[1] = "num" -> j[2] # 0
      [] OTHER -> j[2] # <<>>

\* RecipeScraper._find_recipe_in_json: Return(None), Return(<<node>>), or
\* the TypeError of 'Recipe' in type_val on an @type that is no container
RECURSIVE find_recipe_in_json(_)
RECURSIVE find_first_recipe(_)

\* the loops "for item in ...: result = find(item); if result: return result"
find_first_recipe(items) ==
    IF items = <<>> THEN Return(None)
    ELSE LET found == find_recipe_in_json(items[1])
         IN  IF found.raised \/ found.value # None THEN found
             ELSE find_first_recipe(Tail(items))

find_recipe_in_json(data) ==
    IF data[1] = "dict"
    THEN LET got == get(data, "@type", JList(<<>>))
             type_val == IF got[1] = "str" THEN JList(<<got>>) ELSE got
             graph == IF has_key(data, "@graph")
                      THEN find_recipe_in_json(get(data, "@graph", JNull))
                      ELSE Return(None)
         IN  IF type_val[1] \in {"num", "null"} THEN Raise("TypeError")
             ELSE IF \/ /\ type_val[1] = "list"
                        /\ \E i \in 1..Len(type_val[2]) :
                              /\ type_val[2][i][1] = "str"
                              /\ type_val[2][i][2] = <<"R", "e", "c", "i", "p", "e">>
                     \/ type_val[1] = "dict" /\ has_key(type_val, "Recipe")
             THEN Return(Some(data))
             ELSE IF graph.raised \/ graph.value # None THEN graph
             ELSE find_first_recipe(values(data))
    ELSE IF data[1] = "list" THEN find_first_recipe(data[2])
    ELSE Return(None)

\* A <script type="application/ld+json"> block: loads is FALSE when
\* json.loads(script.string) raises (invalid JSON, empty script), data is
\* the value it returns otherwise
Script(loads, data) == [loads |-> loads, data |-> data]

\* RecipeScraper._extract_json_ld: None, or <<the Recipe node>> of the
\* first block that holds one; a block that raises is skipped
RECURSIVE extract_json_ld(_)
extract_json_ld(scripts) ==
    IF scripts = <<>> THEN None
    ELSE LET recipe == IF scripts[1].loads
                       THEN find_recipe_in_json(scripts[1].data)
                       ELSE Raise("JSONDecodeError")
         IN  IF ~recipe.raised /\ recipe.value # None THEN recipe.value
             ELSE extract_json_ld(Tail(scripts))

\* s contains part (part in s)
contains(s, part) ==
    \E i \in 1..(Len(s) - Len(part) + 1) : SubSeq(s, i, i + Len(part) - 1) = part

\* re.search(pattern, s): the least index where the pattern matches (ends
\* as for sub), 0 when there is none
search(ends) ==
    LET hits == {i \in 1..Len(ends) : ends[i] >= i}
    IN  IF hits = {} THEN 0 ELSE Least(hits)

\* r'\d+'
DigitsEnd(s, i) == IF IsDigit(s[i]) THEN i + DigitRun(s, i) - 1 ELSE 0

\* int(re.search(r'\d+', s).group()) when the search matches, else None
first_int(s) ==
    LET i == search([j \in 1..Len(s) |-> DigitsEnd(s, j)])
    IN  IF i = 0 THEN None ELSE Some(int_of(SubSeq(s, i, DigitsEnd(s, i))))

\* str(n), n >= 0
RECURSIVE str_of(_)
str_of(n) ==
    IF n < 10 THEN <<Digits[n + 1]>> ELSE str_of(n \div 10) \o <<Digits[(n % 10) + 1]>>

\* ' '.join(parts)
RECURSIVE join(_)
join(parts) ==
    IF Len(parts) = 0 THEN <<>>
    ELSE IF Len(parts) = 1 THEN parts[1]
    ELSE parts[1] \o <<" ">> \o join(Tail(parts))

\* One group (?:(\d+)X)? of the duration pattern at index p: the number of
\* characters it takes, 0 when it takes no part
ComponentLen(s, p, letter) ==
    LET d == DigitRun(s, p)
    IN  IF d >= 1 /\ p + d <= Len(s) /\ s[p + d] = letter THEN d + 1 ELSE 0

\* RecipeScraper._parse_duration, of None or <<text>>
parse_duration(duration) ==
    IF duration = None \/ duration[1] = <<>> THEN None
    ELSE LET s == duration[1]
             h == ComponentLen(s, 3, "H")
             m == ComponentLen(s, 3 + h, "M")
             sec == ComponentLen(s, 3 + h + m, "S")
             part(p, n, letter) ==
                 IF n = 0 THEN <<>> ELSE <<SubSeq(s, p, p + n - 2) \o <<letter>>>>
             parts == part(3, h, "h") \o part(3 + h, m, "m")
                      \o part(3 + h + m, sec, "s")
         IN  IF startswith(s, <<"P", "T">>)
             THEN (IF parts = <<>> THEN None ELSE Some(join(parts)))
             ELSE Some(s)

\* for ing_text in lines: parsed = self._parse_ingredient(ing_text);
\* if parsed: ingredients.append(parsed).  Return(ingredients), or the
\* exception that leaves the loop
append_parsed(parsed, others) ==
    IF parsed.raised THEN parsed
    ELSE IF others.raised THEN others
    ELSE Return(parsed.value \o others.value)

RECURSIVE parse_each(_)
parse_each(lines) ==
    IF lines = <<>> THEN Return(<<>>)
    ELSE append_parsed(parse_ingredient(lines[1]), parse_each(Tail(lines)))

\* return Recipe(...) with the ingredients parsed before, or the exception
\* raised while parsing them
recipe_of(title, servings, prep, cook, total, ingredients, instructions, url) ==
    IF ingredients.raised THEN ingredients
    ELSE Return(Recipe(title, servings, prep, cook, total,
                       ingredients.value, instructions, url))

\* The text of one step object of recipeInstructions: its 'text' when
\* there is one and it is not empty
step_text(item) ==
    LET text == get(item, "text", JStr(<<>>))
    IN  IF truthy(text) THEN <<clean_html_text(text[2])>> ELSE <<>>

\* The steps of a HowToSection's itemListElement
RECURSIVE section_steps(_)
section_steps(steps) ==
    IF steps = <<>> THEN <<>>
    ELSE (IF steps[1][1] = "dict" THEN step_text(steps[1])
          ELSE IF steps[1][1] = "str" THEN <<clean_html_text(steps[1][2])>>
          ELSE <<>>) \o section_steps(Tail(steps))

\* The loop over a recipeInstructions list: a text, a HowToSection (its
\* steps), a HowToStep or any other object (its 'text')
RECURSIVE instruction_items(_)
instruction_items(items) ==
    IF items = <<>> THEN <<>>
    ELSE LET item == items[1]
             kind == get(item, "@type", JNull)
             here == IF item[1] = "str" THEN <<clean_html_text(item[2])>>
                     ELSE IF item[1] # "dict" THEN <<>>
                     ELSE IF kind[1] = "str" /\ kind[2] = <<"H", "o", "w", "T", "o", "S", "e", "c", "t", "i", "o", "n">>
                     THEN section_steps(get(item, "itemListElement", JList(<<>>))[2])
                     ELSE step_text(item)
         IN  here \o instruction_items(Tail(items))

\* RecipeScraper._parse_schema_recipe, on a node whose name, recipeYield and
\* durations are texts (or absent), whose recipeIngredient is a list of
\* texts and whose texts hold no line break: Return(recipe), or the
\* exception raised while parsing an ingredient
parse_schema_recipe(data, url) ==
    LET name == get(data, "name", JStr(<<"U", "n", "t", "i", "t", "l", "e", "d", " ", "R", "e", "c", "i", "p", "e">>))[2]
        got_yield == get(data, "recipeYield", JNull)
        yield_value == IF got_yield[1] = "list" THEN got_yield[2][1] ELSE got_yield
        servings == IF truthy(got_yield) THEN first_int(yield_value[2]) ELSE None
        ingredient_list == get(data, "recipeIngredient", JList(<<>>))[2]
        inst_data == get(data, "recipeInstructions", JList(<<>>))
        instructions ==
            IF inst_data[1] = "str"
            THEN (IF strip(inst_data[2]) # <<>>
                  THEN <<clean_html_text(inst_data[2])>> ELSE <<>>)
            ELSE IF inst_data[1] = "list" THEN instruction_items(inst_data[2])
            ELSE <<>>
        duration(key) ==
            LET got == get(data, key, JNull)
            IN  parse_duration(IF got[1] = "str" THEN Some(got[2]) ELSE None)
    IN  recipe_of(name, servings, duration("prepTime"), duration("cookTime"),
                  duration("totalTime"),
                  parse_each([i \in 1..Len(ingredient_list) |-> ingredient_list[i][2]]),
                  instructions, url)

\* r'\d+\.\s+', the separator of re.split(r'\n+|\d+\.\s+', inst_text) in
\* a text without line breaks
StepNumberEnd(s, i) ==
    LET a == i + DigitRun(s, i)
    IN  IF a > i /\ a <= Len(s) /\ s[a] = "." /\ SpaceRun(s, a + 1) >= 1
        THEN a + SpaceRun(s, a + 1) ELSE 0

\* re.split: the pieces between the matches, the scan going on from
\* index i
RECURSIVE splitFrom(_, _, _)
splitFrom(ends, s, i) ==
    LET hits == {j \in i..Len(s) : ends[j] >= j}
        j == Least(hits)
    IN  IF hits = {} THEN <<From(s, i)>>
        ELSE <<SubSeq(s, i, j - 1)>> \o splitFrom(ends, s, ends[j] + 1)

re_split(ends, s) == splitFrom(<<>> \o ends, s, 1)

\* [s.strip() for s in pieces if s.strip()]
stripped_nonempty(pieces) ==
    SelectSeq([i \in 1..Len(pieces) |-> strip(pieces[i])], LAMBDA t : t # <<>>)

\* What the recipe-scrapers library gives for a page: raises (scrape_me or
\* one of title / ingredients / instructions raises), else the values of
\* title(), ingredients(), instructions(), yields() and the three times
Scraper(raises, title, ingredients, instructions, yields, prep, cook, total) ==
    [raises |-> raises, title |-> title, ingredients |-> ingredients,
     instructions |-> instructions, yields |-> yields,
     prep_time |-> prep, cook_time |-> cook, total_time |-> total]

\* f"{minutes}m" when minutes is truthy
minutes_text(minutes) == IF minutes # 0 THEN Some(str_of(minutes) \o <<"m">>) ELSE None

\* RecipeScraper._parse_recipe_scrapers: Return(recipe), or the exception
\* raised by the library or while parsing an ingredient
parse_recipe_scrapers(scraper, url) ==
    LET instructions == IF scraper.instructions # <<>>
                        THEN stripped_nonempty(re_split(
                                 [i \in 1..Len(scraper.instructions) |->
                                     StepNumberEnd(scraper.instructions, i)],
                                 scraper.instructions))
                        ELSE <<>>
        servings == IF scraper.yields # <<>> THEN first_int(scraper.yields) ELSE None
    IN  IF scraper.raises THEN Raise("Exception")
        ELSE recipe_of(IF scraper.title # <<>> THEN scraper.title
                       ELSE <<"U", "n", "t", "i", "t", "l", "e", "d", " ", "R", "e", "c", "i", "p", "e">>,
                       servings, minutes_text(scraper.prep_time),
                       minutes_text(scraper.cook_time),
                       minutes_text(scraper.total_time),
                       parse_each(scraper.ingredients), instructions, url)

\* RecipeScraper._ingredients_look_valid (original_text is never empty on a
\* parsed Ingredient)
ingredients_look_valid(ingredients) ==
    LET first5 == SubSeq(ingredients, 1, IF Len(ingredients) < 5
                                         THEN Len(ingredients) ELSE 5)
        long_count == Cardinality({i \in 1..Len(first5) :
                                     Len(first5[i].original_text) > 100})
    IN  IF ingredients = <<>> THEN FALSE
        ELSE 2 * long_count < Len(first5)

(***************************************************************************)
(* RecipeScraper: the heuristic extractor.  The document body is the       *)
(* sequence of its elements in document order: headings (text), lists (the *)
(* texts of their li items) and tables (rows of cell texts).               *)
(***************************************************************************)
Heading(tag, text) == [tag |-> tag, text |-> text, items |-> <<>>, rows |-> <<>>]
List(tag, items) == [tag |-> tag, text |-> <<>>, items |-> items, rows |-> <<>>]
Table(rows) == [tag |-> "table", text |-> <<>>, items |-> <<>>, rows |-> rows]

HeadingTags == {"h1", "h2", "h3", "h4", "h5", "h6", "strong", "b"}
ListTags == {"ul", "ol"}

\* soup.find_all(tags): the indices of the elements, in document order
find_all(body, tags) == SelectSeq([i \in 1..Len(body) |-> i], LAMBDA i : body[i].tag \in tags)

\* heading.find_next(['ul', 'ol']): the index of the first list after the
\* element i, 0 for None
find_next(body, i) ==
    LET after == {j \in (i + 1)..Len(body) : body[j].tag \in ListTags}
    IN  IF after = {} THEN 0 ELSE CHOOSE j \in after : \A k \in after : j <= k

\* [li.get_text(strip=True) for li in items], without the empty ones
item_texts(items) == stripped_nonempty(items)

instruction_words ==
    << <<"m", "e", "t", "h", "o", "d">>, <<"i", "n", "s", "t", "r", "u", "c", "t", "i", "o", "n">>, <<"d", "i", "r", "e", "c", "t", "i", "o", "n">>, <<"p", "r", "e", "p", "a", "r", "a", "t", "i", "o", "n">>, <<"s", "t", "e", "p", "s">> >>

\* [clean(text) for text in texts if clean(text)]
cleaned_nonempty(texts) ==
    SelectSeq([i \in 1..Len(texts) |-> clean_html_text(strip(texts[i]))],
              LAMBDA t : t # <<>>)

\* The loop of _extract_from_headings from the heading headings[h] on:
\* Return(<<ingredients, instructions>>), or the exception raised while
\* parsing an ingredient.  list_elem is ingredients_list_elem (0 for None);
\* Tag's != compares two elements by their content
RECURSIVE headings_loop(_, _, _, _, _, _)

\* The loop goes on at the next heading with what this one gave, or ends
\* with the exception raised while parsing its ingredients
headings_next(body, headings, h, parsed, instructions, list_elem) ==
    IF parsed.raised THEN parsed
    ELSE headings_loop(body, headings, h + 1, parsed.value, instructions, list_elem)

headings_loop(body, headings, h, ingredients, instructions, list_elem) ==
    IF h > Len(headings) THEN Return(<<ingredients, instructions>>)
    ELSE LET heading_text == lower(strip(body[headings[h]].text))
             next_elem == find_next(body, headings[h])
             for_ingredients == /\ contains(heading_text, <<"i", "n", "g", "r", "e", "d", "i", "e", "n", "t">>)
                                /\ ingredients = <<>>
                                /\ next_elem # 0
             list_elem2 == IF for_ingredients THEN next_elem ELSE list_elem
             for_instructions ==
                 /\ \E w \in 1..Len(instruction_words) :
                       contains(heading_text, instruction_words[w])
                 /\ instructions = <<>>
                 /\ next_elem # 0
                 /\ list_elem2 = 0 \/ body[next_elem] # body[list_elem2]
         IN  headings_next(body, headings, h,
                           IF for_ingredients
                           THEN parse_each(item_texts(body[next_elem].items))
                           ELSE Return(ingredients),
                           IF for_instructions
                           THEN cleaned_nonempty(body[next_elem].items)
                           ELSE instructions,
                           list_elem2)

\* RecipeScraper._extract_from_headings
extract_from_headings(body) ==
    headings_loop(body, find_all(body, HeadingTags), 1, <<>>, <<>>, 0)

\* The line that the table strategy makes of one row (None: the row is
\* skipped)
row_line(cells) ==
    LET qty_text == strip(cells[1])
        item_text == strip(cells[2])
        combined == strip(qty_text \o <<" ">> \o item_text)
    IN  IF Len(cells) >= 2 /\ item_text # <<>> /\ ~isupper(item_text)
           /\ combined # <<>>
        THEN Some(combined) ELSE None

\* The lines of the rows of all tables, in document order
RECURSIVE table_lines(_, _)
table_lines(body, tables) ==
    IF tables = <<>> THEN <<>>
    ELSE LET rows == body[tables[1]].rows
             RECURSIVE lines(_)
             lines(r) == IF r > Len(rows) THEN <<>>
                         ELSE row_line(rows[r]) \o lines(r + 1)
         IN  lines(1) \o table_lines(body, Tail(tables))

ingredient_words ==
    << <<"c", "u", "p">>, <<"t", "b", "s", "p">>, <<"t", "s", "p">>, <<"o", "z">>, <<"p", "o", "u", "n", "d">>, <<"g", "r", "a", "m">>, <<"s", "a", "l", "t">>,
       <<"p", "e", "p", "p", "e", "r">>, <<"b", "u", "t", "t", "e", "r">>, <<"o", "i", "l">>, <<"f", "l", "o", "u", "r">>, <<"s", "u", "g", "a", "r">> >>

\* RecipeScraper._looks_like_ingredients
looks_like_ingredients(items) ==
    LET first5 == SubSeq(items, 1, IF Len(items) < 5 THEN Len(items) ELSE 5)
        matches == Cardinality({i \in 1..Len(first5) :
                       \E w \in 1..Len(ingredient_words) :
                           contains(lower(first5[i]), ingredient_words[w])})
    IN  IF Len(items) < 3 THEN FALSE ELSE matches >= 2

\* The list strategy: the lines of the first list that looks like
\* ingredients
RECURSIVE list_lines(_, _)
list_lines(body, lists) ==
    IF lists = <<>> THEN <<>>
    ELSE LET items == body[lists[1]].items
         IN  IF items # <<>> /\ looks_like_ingredients(items)
             THEN item_texts(items)
             ELSE list_lines(body, Tail(lists))

\* re.match(r'^\d+\s*g\b', text)
starts_with_grams(text) ==
    LET a == 1 + DigitRun(text, 1)
        g == a + SpaceRun(text, a)
    IN  a > 1 /\ g <= Len(text) /\ text[g] = "g"
        /\ (g = Len(text) \/ ~IsWordChar(text[g + 1]))

\* The instructions fallback: the long items of the first ordered list of
\* two items or more that has some
RECURSIVE fallback_instructions(_, _)
fallback_instructions(body, lists) ==
    IF lists = <<>> THEN <<>>
    ELSE LET items == body[lists[1]].items
             potential_instructions ==
                 SelectSeq([i \in 1..Len(items) |-> clean_html_text(strip(items[i]))],
                           LAMBDA text : /\ text # <<>>
                                         /\ Len(text) > 50
                                         /\ ~starts_with_grams(text))
         IN  IF Len(items) >= 2 /\ potential_instructions # <<>>
             THEN potential_instructions
             ELSE fallback_instructions(body, Tail(lists))

\* soup.get_text(): the texts of the body, one after the other
RECURSIVE concat(_)
concat(texts) == IF texts = <<>> THEN <<>> ELSE texts[1] \o concat(Tail(texts))

get_text(body) ==
    concat([i \in 1..Len(body) |->
               body[i].text \o concat(body[i].items)
               \o concat([r \in 1..Len(body[i].rows) |-> concat(body[i].rows[r])])])

\* r'Serves?\s*(\d+)', re.IGNORECASE, matched at index i: the index of the
\* first digit of the group, 0 when it does not match
ServesStart(s, i) ==
    LET j == i + 5
        a == IF j <= Len(s) /\ lowerChar(s[j]) = "s" THEN j + 1 ELSE j
        d == a + SpaceRun(s, a)
    IN  IF MatchAt(s, i, <<"s", "e", "r", "v", "e">>) /\ DigitRun(s, d) >= 1 THEN d ELSE 0

\* r'<label>\s*:?\s*(\d+)\s*min', re.IGNORECASE, matched at index i (label
\* of 4 letters): the index of the first digit of the group, 0 when it
\* does not match
MinutesStart(s, i, label) ==
    LET c == skip_spaces(s, skip_optional(s, skip_spaces(s, i + 4), ":"))
    IN  IF /\ MatchAt(s, i, label)
           /\ DigitRun(s, c) >= 1
           /\ MatchAt(s, skip_spaces(s, skip_digits(s, c)), <<"m", "i", "n">>)
        THEN c ELSE 0

\* match.group(1) of re.search(pattern, s), starts[i] being the index of
\* the group's first digit when the pattern matches at index i (0 when it
\* does not): None when the search finds nothing
digits_group(starts, s) ==
    LET i == search(starts)
        d == starts[i]
    IN  IF i = 0 THEN None ELSE Some(SubSeq(s, d, d + DigitRun(s, d) - 1))

\* f"{match.group(1)}m"
minutes_of(group) == IF group = None THEN None ELSE Some(group[1] \o <<"m">>)

\* prep_time / cook_time of _parse_heuristic
labelled_minutes(s, label) ==
    minutes_of(digits_group([i \in 1..Len(s) |-> MinutesStart(s, i, label)], s))

\* int(match.group(1))
int_of_group(group) == IF group = None THEN None ELSE Some(int_of(group[1]))

\* servings of _parse_heuristic
serves(page_text) ==
    int_of_group(digits_group([i \in 1..Len(page_text) |-> ServesStart(page_text, i)],
                              page_text))

\* if not ingredients: the next strategy is tried when the one before gave
\* no ingredient
first_found(found, next) ==
    IF found.raised THEN found
    ELSE IF found.value # <<>> THEN found
    ELSE next

\* _parse_heuristic with the outcome of _extract_from_headings
heuristic_recipe(body, url, from_headings) ==
    LET h1 == find_all(body, {"h1"})
        page_text == get_text(body)
    IN  IF from_headings.raised THEN from_headings
        ELSE recipe_of(IF h1 # <<>> THEN strip(body[h1[1]].text)
                       ELSE <<"U", "n", "t", "i", "t", "l", "e", "d", " ", "R", "e", "c", "i", "p", "e">>,
                       serves(page_text),
                       labelled_minutes(page_text, <<"p", "r", "e", "p">>),
                       labelled_minutes(page_text, <<"c", "o", "o", "k">>), None,
                       first_found(
                           first_found(
                               Return(from_headings.value[1]),
                               parse_each(table_lines(body, find_all(body, {"table"})))),
                           parse_each(list_lines(body, find_all(body, ListTags)))),
                       IF from_headings.value[2] = <<>>
                       THEN fallback_instructions(body, find_all(body, {"ol"}))
                       ELSE from_headings.value[2],
                       url)

\* RecipeScraper._parse_heuristic: Return(recipe), or the exception raised
\* while parsing an ingredient
parse_heuristic(body, url) == heuristic_recipe(body, url, extract_from_headings(body))

(***************************************************************************)
(* RecipeScraper.scrape: one call, from the request to the return or the   *)
(* exception that ends it.                                                 *)
(***************************************************************************)
\* What the call meets: whether the request succeeds, the document's
\* JSON-LD blocks and body, HAS_RECIPE_SCRAPERS, and what the library
\* gives for the url
Page(fetch_ok, scripts, body, has_recipe_scrapers, scraper) ==
    [fetch_ok |-> fetch_ok, scripts |-> scripts, body |-> body,
     has_recipe_scrapers |-> has_recipe_scrapers, scraper |-> scraper,
     url |-> "http://x/bread"]

\* The call goes on in another state, or ends with an outcome
Goto(state) == [pc |-> state, result |-> <<>>]
Ended(outcome) ==
    [pc |-> IF outcome.raised THEN "Raised" ELSE "Done", result |-> <<outcome>>]

\* scrape, lines 320-321: session.get and raise_for_status
FetchStep(p) ==
    IF p.fetch_ok THEN Goto("StructuredData") ELSE Ended(Raise("RequestException"))

\* A structured-data step that gives up a Recipe node without ingredients
StructuredDataStepNeedingIngredients(p) ==
    LET recipe_data == extract_json_ld(p.scripts)
        parsed == parse_schema_recipe(recipe_data[1], p.url)
    IN  IF recipe_data # None /\ (parsed.raised \/ parsed.value.ingredients # <<>>)
        THEN Ended(parsed)
        ELSE IF p.has_recipe_scrapers THEN Goto("LibraryFallback")
        ELSE Goto("Heuristic")

\* scrape, lines 326-331: JSON-LD first
StructuredDataStep(p) ==
    LET recipe_data == extract_json_ld(p.scripts)
    IN  IF recipe_data # None
        THEN Ended(parse_schema_recipe(recipe_data[1], p.url))
        ELSE IF p.has_recipe_scrapers THEN Goto("LibraryFallback")
        ELSE Goto("Heuristic")

\* scrape, lines 332-340: the recipe-scrapers library
AfterLibrary(recipe) ==
    IF recipe.raised THEN Goto("Heuristic")
    ELSE IF /\ recipe.value.ingredients # <<>>
            /\ ~ingredients_look_valid(recipe.value.ingredients)
    THEN Goto("Heuristic")
    ELSE Ended(recipe)

LibraryFallbackStep(p) == AfterLibrary(parse_recipe_scrapers(p.scraper, p.url))

\* scrape, line 343: the heuristics
HeuristicStep(p) == Ended(parse_heuristic(p.body, p.url))

MaxScripts == 2     \* JSON-LD blocks in the document
MaxElems == 3       \* elements in the document body

\* A step of 57 characters, a text of 115
LongStep == <<"M", "i", "x", " ", "t", "h", "e", " ", "f", "l", "o", "u", "r", " ", "a", "n", "d", " ", "t", "h", "e", " ", "s", "a", "l", "t", " ", "i", "n", " ", "a", " ", "l", "a", "r", "g", "e", " ", "b", "o", "w", "l", ",", " ", "t", "h", "e", "n", " ", "a", "d", "d", " ", "w", "a", "t", "e", "r">>
LongText ==
    <<"h", "t", "t", "p", "s", ":", "/", "/", "e", "x", "a", "m", "p", "l", "e", ".", "c", "o", "m", "/", "s", "h", "o", "p", "/", "o", "r", "g", "a", "n", "i", "c", "-", "s", "t", "o", "n", "e", "g", "r", "o", "u", "n", "d", "-", "w", "h", "o", "l", "e", "m", "e", "a", "l", "-", "b", "r", "e", "a", "d", "-", "f", "l", "o", "u", "r", "-", "1", "k", "g", "/">>
    \o <<"c", "u", "s", "t", "o", "m", "e", "r", "-", "r", "e", "v", "i", "e", "w", "s", "-", "a", "n", "d", "-", "b", "a", "k", "i", "n", "g", "-", "n", "o", "t", "e", "s">>

WebPageNode == JDict(<< <<"@type", JStr(<<"W", "e", "b", "P", "a", "g", "e">>)>> >>)

BreadNode ==
    JDict(<< <<"@type", JStr(<<"R", "e", "c", "i", "p", "e">>)>>,
             <<"name", JStr(<<"B", "r", "e", "a", "d">>)>>,
             <<"recipeYield", JList(<<JStr(<<"4", " ", "l", "o", "a", "v", "e", "s">>)>>)>>,
             <<"recipeIngredient", JList(<<JStr(<<"2", " ", "c", "u", "p", "s", " ", "f", "l", "o", "u", "r">>), JStr(<<"S", "a", "l", "t">>)>>)>>,
             <<"recipeInstructions",
               JList(<<JStr(<<"-", " ", "M", "i", "x", ".">>),
                       JDict(<< <<"@type", JStr(<<"H", "o", "w", "T", "o", "S", "t", "e", "p">>)>>,
                                <<"text", JStr(<<"B", "a", "k", "e", ".">>)>> >>)>>)>>,
             <<"prepTime", JStr(<<"P", "T", "1", "H", "3", "0", "M">>)>>,
             <<"cookTime", JStr(<<"4", "5", " ", "m", "i", "n">>)>> >>)

BareNode == JDict(<< <<"@type", JList(<<JStr(<<"R", "e", "c", "i", "p", "e">>)>>)>> >>)

SauceNode ==
    JDict(<< <<"@type", JStr(<<"R", "e", "c", "i", "p", "e">>)>>,
             <<"recipeIngredient", JList(<<JStr(<<"(", "2", " ", "c", "u", "p", "s", ")", " ", "s", "t", "o", "c", "k">>)>>)>> >>)

\* The JSON-LD blocks of the documents: invalid JSON, no Recipe, a Recipe,
\* a Recipe with nothing but its type, a Recipe inside an @graph, a Recipe
\* below a node whose @type is a number
Scripts ==
    { Script(FALSE, JNull),
      Script(TRUE, WebPageNode),
      Script(TRUE, BreadNode),
      Script(TRUE, BareNode),
      Script(TRUE, JDict(<< <<"@graph", JList(<<WebPageNode, SauceNode>>)>> >>)),
      Script(TRUE, JDict(<< <<"@type", JNum(5)>>, <<"mainEntity", BreadNode>> >>)) }

\* The elements of the document bodies
Elements ==
    { Heading("h1", <<"B", "r", "e", "a", "d", " ", "(", "s", "e", "r", "v", "e", "s", " ", "2", ")">>),
      Heading("h2", <<"I", "n", "g", "r", "e", "d", "i", "e", "n", "t", "s">>),
      Heading("strong", <<"M", "e", "t", "h", "o", "d">>),
      List("ul", << <<"2", " ", "c", "u", "p", "s", " ", "f", "l", "o", "u", "r">>, <<"1", " ", "t", "s", "p", " ", "s", "a", "l", "t">>, <<"o", "l", "i", "v", "e", " ", "o", "i", "l">> >>),
      List("ul", << <<"(", "2", " ", "c", "u", "p", "s", ")", " ", "s", "t", "o", "c", "k">>, <<"1", " ", "t", "s", "p", " ", "s", "a", "l", "t">>, <<"s", "u", "g", "a", "r">> >>),
      List("ol", << LongStep, <<"B", "a", "k", "e", ".">> >>),
      Table(<< << <<"2", " ", "c", "u", "p", "s">>, <<"f", "l", "o", "u", "r">> >>, << <<>>, <<"B", "R", "O", "T", "H">> >>,
               << <<"1">>, <<"e", "g", "g">> >> >>) }

\* The sequences of at most n members of S
RECURSIVE SeqsUpTo(_, _)
SeqsUpTo(S, n) ==
    IF n = 0 THEN {<<>>}
    ELSE LET shorter == SeqsUpTo(S, n - 1)
         IN  shorter \cup {Append(s, x) : s \in shorter, x \in S}

NoScraper == Scraper(TRUE, <<>>, <<>>, <<>>, <<>>, 0, 0, 0)
BreadScraper ==
    Scraper(FALSE, <<"B", "r", "e", "a", "d">>, << <<"2", " ", "c", "u", "p", "s", " ", "f", "l", "o", "u", "r">>, <<"1", " ", "t", "s", "p", " ", "s", "a", "l", "t">> >>,
            <<"1", ".", " ", "M", "i", "x", ".", " ", "2", ".", " ", "B", "a", "k", "e", ".">>, <<"4", " ", "s", "e", "r", "v", "i", "n", "g", "s">>, 10, 0, 70)

\* What the library gives: an exception, a recipe, a recipe without
\* ingredients, one whose only line is skipped, one whose ingredients are
\* paragraphs, one with a line for which the parser raises
Scrapers ==
    { NoScraper,
      BreadScraper,
      Scraper(FALSE, <<>>, <<>>, <<>>, <<>>, 0, 0, 0),
      Scraper(FALSE, <<"B", "r", "e", "a", "d">>, << <<"S", "a", "l", "t">> >>, <<>>, <<>>, 0, 0, 0),
      Scraper(FALSE, <<"B", "r", "e", "a", "d">>, << LongText, LongText, <<"1", " ", "t", "s", "p", " ", "s", "a", "l", "t">> >>,
              <<>>, <<>>, 0, 0, 0),
      Scraper(FALSE, <<"S", "a", "u", "c", "e">>, << <<"(", "2", " ", "c", "u", "p", "s", ")", " ", "s", "t", "o", "c", "k">> >>, <<>>, <<>>, 0, 0, 0) }

SimpleBody ==
    << Heading("h2", <<"I", "n", "g", "r", "e", "d", "i", "e", "n", "t", "s">>),
       List("ul", << <<"2", " ", "c", "u", "p", "s", " ", "f", "l", "o", "u", "r">>, <<"1", " ", "t", "s", "p", " ", "s", "a", "l", "t">>, <<"o", "l", "i", "v", "e", " ", "o", "i", "l">> >>) >>

\* The pages: a failed request; documents that differ in their JSON-LD
\* blocks; documents without structured data that differ in what the
\* library gives; documents that differ in their body
Pages ==
    { Page(FALSE, <<>>, <<>>, FALSE, NoScraper) }
    \cup { Page(TRUE, scripts, body, has, BreadScraper) :
             scripts \in SeqsUpTo(Scripts, MaxScripts),
             body \in {<<>>, SimpleBody}, has \in BOOLEAN }
    \cup { Page(TRUE, scripts, body, TRUE, scraper) :
             scripts \in {<<>>, <<Script(FALSE, JNull)>>},
             body \in {<<>>, SimpleBody}, scraper \in Scrapers }
    \cup { Page(TRUE, <<>>, body, has, NoScraper) :
             body \in SeqsUpTo(Elements, MaxElems), has \in BOOLEAN }

InitScrape ==
    /\ page \in Pages
    /\ pc = "Fetch"
    /\ attempted = <<>>
    /\ result = <<>>
    /\ RecipeIdle /\ ConvIdle /\ ParseIdle /\ HelperIdle /\ ApiIdle

\* The call takes the step of the state it is in
Step(state, step) ==
    /\ pc = state
    /\ pc' = step.pc
    /\ result' = step.result
    /\ UNCHANGED <<page, recipeVars, convVars, parseVars, helperVars, apiVars>>

Fetch == Step("Fetch", FetchStep(page)) /\ UNCHANGED attempted

StructuredData ==
    /\ Step("StructuredData", StructuredDataStep(page))
    /\ attempted' = Append(attempted, "StructuredData")

LibraryFallback ==
    /\ Step("LibraryFallback", LibraryFallbackStep(page))
    /\ attempted' = Append(attempted, "LibraryFallback")

Heuristic ==
    /\ Step("Heuristic", HeuristicStep(page))
    /\ attempted' = Append(attempted, "Heuristic")

NextScrape ==
    \/ Fetch
    \/ StructuredData
    \/ LibraryFallback
    \/ Heuristic

SpecScrape == InitScrape /\ [][NextScrape]_vars

\* The Recipe node that the structured-data search finds in the page: None
\* or <<node>>
RecipeNode == extract_json_ld(page.scripts)

\* C1: when the structured-data search finds a Recipe node, no other
\* strategy is entered, and a Recipe that scrape returns is the one parsed
\* from that node, whether or not it has ingredients or instructions
C1_StructuredRecipeWins ==
    RecipeNode # None =>
        /\ pc \notin {"LibraryFallback", "Heuristic"}
        /\ \A i \in 1..Len(attempted) : attempted[i] = "StructuredData"
        /\ pc = "Done" =>
              result[1] = parse_schema_recipe(RecipeNode[1], page.url)

\* scrape has returned the Recipe of a node without ingredients and
\* without instructions, the library being there
C1_Witness ==
    /\ pc = "Done"
    /\ RecipeNode # None
    /\ page.has_recipe_scrapers
    /\ result[1].value.ingredients = <<>>
    /\ result[1].value.instructions = <<>>
    /\ attempted = <<"StructuredData">>

\* C2: a Recipe that scrape returns from the library step comes from an
\* extractor that succeeded and has ingredients that pass the plausibility
\* test (not empty, fewer than half of the first 5 longer than 100
\* characters); after an exception or an implausible list the heuristic
\* step is entered
C2_LibraryRecipeIsPlausible ==
    LET recipe == parse_recipe_scrapers(page.scraper, page.url)
        last == attempted[Len(attempted)]
    IN  /\ (pc = "Done" /\ last = "LibraryFallback") =>
              /\ ~recipe.raised
              /\ result[1] = recipe
              /\ ingredients_look_valid(result[1].value.ingredients)
        /\ (/\ pc \in {"Done", "Raised"}
            /\ "LibraryFallback" \in {attempted[i] : i \in 1..Len(attempted)}
            /\ recipe.raised \/ ~ingredients_look_valid(recipe.value.ingredients))
           => last = "Heuristic"

\* The strategies of attempted are entered in the order StructuredData,
\* LibraryFallback, Heuristic, each at most once
InOrder ==
    LET rank(s) == CASE s = "StructuredData" -> 1
                     [] s = "LibraryFallback" -> 2
                     [] s = "Heuristic" -> 3
    IN  \A i, j \in 1..Len(attempted) : i < j => rank(attempted[i]) < rank(attempted[j])

\* C3: once the request has succeeded the call does not end with an
\* exception: it ends in Done with a Recipe, the strategies being entered
\* in order, each at most once, the library only if it is there, and the
\* heuristic step always returning a Recipe
C3_ExtractionEndsInDone ==
    /\ InOrder
    /\ "LibraryFallback" \in {attempted[i] : i \in 1..Len(attempted)}
          => page.has_recipe_scrapers
    /\ page.fetch_ok => pc # "Raised"
    /\ pc = "Done" => ~result[1].raised

\* The dict nodes of a JSON value, at any depth
RECURSIVE json_nodes(_)
json_nodes(data) ==
    IF data[1] = "dict"
    THEN {data} \cup UNION {json_nodes(data[2][i][2]) : i \in 1..Len(data[2])}
    ELSE IF data[1] = "list"
    THEN UNION {json_nodes(data[2][i]) : i \in 1..Len(data[2])}
    ELSE {}

\* A node whose @type is 'Recipe' or a list that holds 'Recipe'
is_recipe_node(node) ==
    LET type_val == get(node, "@type", JList(<<>>))
    IN  \/ type_val = JStr(<<"R", "e", "c", "i", "p", "e">>)
        \/ type_val[1] = "list" /\ \E i \in 1..Len(type_val[2]) : type_val[2][i] = JStr(<<"R", "e", "c", "i", "p", "e">>)

\* The Recipe nodes of a JSON-LD block; a block that is no valid JSON (or
\* empty) has none
recipe_nodes(script) ==
    IF script.loads THEN {n \in json_nodes(script.data) : is_recipe_node(n)} ELSE {}

\* Malformed blocks are skipped and the first block that holds a Recipe
\* node wins; without such a block the search finds nothing and scrape
\* goes on to the next strategy; stated once the structured-data step has
\* been taken.  untyped FALSE: only for the pages in whose blocks every
\* @type is a string or a list
BlocksSearchedInOrder(untyped) ==
    LET holding == {i \in 1..Len(page.scripts) : recipe_nodes(page.scripts[i]) # {}}
        typed == \A i \in 1..Len(page.scripts) :
                    page.scripts[i].loads =>
                        \A n \in json_nodes(page.scripts[i].data) :
                            get(n, "@type", JList(<<>>))[1] \in {"str", "list"}
    IN  (attempted # <<>> /\ (untyped \/ typed)) =>
          /\ holding # {} =>
                /\ RecipeNode # None
                /\ RecipeNode[1] \in recipe_nodes(page.scripts[Least(holding)])
                /\ attempted = <<"StructuredData">>
          /\ holding = {} =>
                /\ RecipeNode = None
                /\ pc \in {"LibraryFallback", "Heuristic"} \/ Len(attempted) >= 2

\* C17: a malformed structured-data block (invalid JSON, empty script) is
\* skipped without ending the extraction: the other blocks are searched in
\* document order, the first block that holds a Recipe node wins, and when
\* no block holds one the search gives 'no structured data' and scrape goes
\* on to the next strategy.
C17_MalformedBlockIsSkipped == BlocksSearchedInOrder(TRUE)

\* The same for the pages in whose blocks every @type is a string or a list
C17_WhenEveryTypeIsTextOrList == BlocksSearchedInOrder(FALSE)

(***************************************************************************)
(* RecipeScraper._balance_parens as a function of its input: one call on   *)
(* a text of parentheses and letters.                                      *)
(***************************************************************************)
MaxParenLen == 5    \* length of the text passed to _balance_parens

ParenChars == {"(", ")", "a"}

ParenTexts == UNION {[1..n -> ParenChars] : n \in 0..MaxParenLen}

InitBalance ==
    /\ helperIn \in ParenTexts
    /\ helperOut = <<>>
    /\ headingLoop = <<>>
    /\ heuristicLocals = <<>>
    /\ RecipeIdle /\ ConvIdle /\ ParseIdle /\ ScrapeIdle /\ ApiIdle

BalanceParens ==
    /\ helperOut = <<>>
    /\ helperOut' = <<balance_parens(helperIn)>>
    /\ UNCHANGED <<helperIn, headingLoop, heuristicLocals, recipeVars, convVars, parseVars, scrapeVars, apiVars>>

NextBalance == BalanceParens

SpecBalance == InitBalance /\ [][NextBalance]_vars

\* C13: parenthesis balancing is idempotent: balancing the text that
\* _balance_parens returned gives that text again.
C13_BalanceIsIdempotent ==
    helperOut # <<>> => balance_parens(helperOut[1]) = helperOut[1]

\* C13 witness: _balance_parens has removed two opening parentheses and
\* returned a text that still holds a pair.
C13_Witness ==
    /\ helperOut # <<>>
    /\ count(helperIn, "(") = count(helperOut[1], "(") + 2
    /\ count(helperOut[1], "(") > 0

\* The positions of a text that a left-to-right matching keeps: every
\* character that is no parenthesis, and every '(' with the ')' that closes
\* it.  open holds the positions of the '(' not closed so far, innermost
\* first.
RECURSIVE kept_positions(_, _, _, _)
kept_positions(s, i, open, kept) ==
    IF i > Len(s) THEN kept
    ELSE IF s[i] = "(" THEN kept_positions(s, i + 1, <<i>> \o open, kept)
    ELSE IF s[i] # ")" THEN kept_positions(s, i + 1, open, kept \cup {i})
    ELSE IF open = <<>> THEN kept_positions(s, i + 1, open, kept)
    ELSE kept_positions(s, i + 1, Tail(open), kept \cup {i, Head(open)})

\* The characters of s at the positions K, in their order
at_positions(s, K) ==
    [k \in 1..Cardinality(K) |->
        s[CHOOSE i \in K : Cardinality({j \in K : j <= i}) = k]]

\* The text without its unmatched parentheses
matched_only(s) == at_positions(s, kept_positions(s, 1, <<>>, {}))

\* C19: _balance_parens removes exactly the unmatched parentheses: the
\* result is the text without the ')' that have no open partner and without
\* the '(' that are never closed, every matched pair and every other
\* character kept in order ('(a (b)' loses its first parenthesis).
C19_RemovesExactlyTheUnmatched ==
    helperOut # <<>> => helperOut[1] = matched_only(helperIn)

\* The unmatched closing parentheses are removed exactly: up to the '(', the
\* result is the text without its unmatched parentheses
C19_ClosingOnly ==
    helperOut # <<>> =>
        /\ SelectSeq(helperOut[1], LAMBDA c : c # "(")
             = SelectSeq(matched_only(helperIn), LAMBDA c : c # "(")
        /\ count(helperOut[1], "(") = count(matched_only(helperIn), "(")

\* A text is balanced: no prefix has more ')' than '(', and the whole text
\* has as many of the one as of the other
balanced(s) ==
    /\ \A n \in 0..Len(s) :
          count(SubSeq(s, 1, n), ")") <= count(SubSeq(s, 1, n), "(")
    /\ count(s, "(") = count(s, ")")

\* The characters of a text that are no parentheses, in their order
without_parens(s) == SelectSeq(s, LAMBDA c : c \notin {"(", ")"})

\* C24: for every input the text that _balance_parens returns is balanced
\* (no prefix has more ')' than '(', and the totals of '(' and ')' are
\* equal), and its characters other than parentheses are those of the
\* input, in the same order.
C24_OutputIsBalanced ==
    helperOut # <<>> =>
        /\ balanced(helperOut[1])
        /\ without_parens(helperOut[1]) = without_parens(helperIn)

\* C24 witness: _balance_parens has removed a closing and an opening
\* parenthesis from a text with a letter and returned a text that keeps a
\* pair.
C24_Witness ==
    /\ helperOut # <<>>
    /\ count(helperIn, ")") > count(helperOut[1], ")")
    /\ count(helperIn, "(") > count(helperOut[1], "(")
    /\ count(helperOut[1], "(") > 0
    /\ without_parens(helperIn) # <<>>

(***************************************************************************)
(* RecipeScraper._parse_quantity as a function of its input: one call on   *)
(* a quantity token (the characters the quantity group of                  *)
(* INGREDIENT_PATTERN admits, without the Unicode fractions).              *)
(***************************************************************************)
MaxQtyLen == 4      \* length of the token passed to _parse_quantity

QuantityChars == {"0", "1", "2", "-", "/", ".", " "}

QuantityTokens == UNION {[1..n -> QuantityChars] : n \in 0..MaxQtyLen}

InitQuantity ==
    /\ helperIn \in QuantityTokens
    /\ helperOut = <<>>
    /\ headingLoop = <<>>
    /\ heuristicLocals = <<>>
    /\ RecipeIdle /\ ConvIdle /\ ParseIdle /\ ScrapeIdle /\ ApiIdle

ParseQuantity ==
    /\ helperOut = <<>>
    /\ helperOut' = <<parse_quantity(helperIn)>>
    /\ UNCHANGED <<helperIn, headingLoop, heuristicLocals, recipeVars, convVars, parseVars, scrapeVars, apiVars>>

NextQuantity == ParseQuantity

SpecQuantity == InitQuantity /\ [][NextQuantity]_vars

\* C14: _parse_quantity returns, for every token, 'no quantity' or a number
\* that is strictly positive; a value <= 0 (the mean of the range '0-0'
\* too) is never returned.
C14_QuantityAbsentOrPositive ==
    helperOut # <<>> => (helperOut[1] = None \/ helperOut[1][1] > 0)

\* The same for the tokens that do not match the range pattern
C14_PositiveUnlessRange ==
    (helperOut # <<>> /\ range_match(strip(helperIn)) = None) =>
        (helperOut[1] = None \/ helperOut[1][1] > 0)

(***************************************************************************)
(* RecipeScraper._extract_from_headings, one iteration of its loop per     *)
(* step, on a document (helperIn) made of a few headings and lists.        *)
(* headingLoop holds the locals of the loop: h, the position in headings;  *)
(* ingredients, instructions and ingredients_list_elem as in the code (an  *)
(* element is the index of the element in the document, 0 for None); and   *)
(* instructions_list_elem, which the code does not keep: the list that the *)
(* instructions heading has read.                                          *)
(***************************************************************************)
MaxHeadingElems == 4    \* elements in the document passed to _extract_from_headings

HeadingElements ==
    { Heading("h2", <<"I", "n", "g", "r", "e", "d", "i", "e", "n", "t", "s">>),
      Heading("strong", <<"M", "e", "t", "h", "o", "d">>),
      Heading("h3", <<"I", "n", "g", "r", "e", "d", "i", "e", "n", "t", "s", " ", "a", "n", "d", " ", "m", "e", "t", "h", "o", "d">>),
      List("ul", << <<"2", " ", "c", "u", "p", "s", " ", "f", "l", "o", "u", "r">>, <<"1", " ", "t", "s", "p", " ", "s", "a", "l", "t">>, <<"o", "l", "i", "v", "e", " ", "o", "i", "l">> >>),
      List("ol", << <<"M", "i", "x", ".">>, <<"-", " ", "B", "a", "k", "e", ".">> >>),
      List("ul", << <<"(", "2", " ", "c", "u", "p", "s", ")", " ", "s", "t", "o", "c", "k">> >>) }

InitHeadings ==
    /\ helperIn \in SeqsUpTo(HeadingElements, MaxHeadingElems)
    /\ helperOut = <<>>
    /\ headingLoop = [h |-> 1, ingredients |-> <<>>, instructions |-> <<>>,
                      ingredients_list_elem |-> 0, instructions_list_elem |-> 0]
    /\ heuristicLocals = <<>>
    /\ RecipeIdle /\ ConvIdle /\ ParseIdle /\ ScrapeIdle /\ ApiIdle

\* The locals after the body of the loop, or the exception that parsing the
\* ingredients raised
after_heading(loop, parsed, instructions, list_elem, instructions_elem) ==
    IF parsed.raised THEN parsed
    ELSE Return([h |-> loop.h + 1, ingredients |-> parsed.value,
                 instructions |-> instructions,
                 ingredients_list_elem |-> list_elem,
                 instructions_list_elem |-> instructions_elem])

\* The body of the loop for the heading at index heading of the document
heading_step(body, heading, loop) ==
    LET heading_text == lower(strip(body[heading].text))
        next_elem == find_next(body, heading)
        for_ingredients == /\ contains(heading_text, <<"i", "n", "g", "r", "e", "d", "i", "e", "n", "t">>)
                           /\ loop.ingredients = <<>>
                           /\ next_elem # 0
        list_elem == IF for_ingredients THEN next_elem ELSE loop.ingredients_list_elem
        for_instructions ==
            /\ \E w \in 1..Len(instruction_words) :
                  contains(heading_text, instruction_words[w])
            /\ loop.instructions = <<>>
            /\ next_elem # 0
            /\ list_elem = 0 \/ body[next_elem] # body[list_elem]
    IN  after_heading(loop,
                      IF for_ingredients
                      THEN parse_each(item_texts(body[next_elem].items))
                      ELSE Return(loop.ingredients),
                      IF for_instructions
                      THEN cleaned_nonempty(body[next_elem].items)
                      ELSE loop.instructions,
                      list_elem,
                      IF for_instructions THEN next_elem
                      ELSE loop.instructions_list_elem)

\* The outcome of one iteration: the next locals, or the call ends with the
\* exception
HeadingOutcome(step) ==
    IF step.raised
    THEN helperOut' = <<step>> /\ UNCHANGED headingLoop
    ELSE headingLoop' = step.value /\ UNCHANGED helperOut

\* for heading in headings: ...
HeadingsIterate ==
    /\ helperOut = <<>>
    /\ headingLoop.h <= Len(find_all(helperIn, HeadingTags))
    /\ HeadingOutcome(heading_step(helperIn,
                                   find_all(helperIn, HeadingTags)[headingLoop.h],
                                   headingLoop))
    /\ UNCHANGED <<helperIn, heuristicLocals, recipeVars, convVars, parseVars, scrapeVars, apiVars>>

\* return ingredients, instructions
HeadingsReturn ==
    /\ helperOut = <<>>
    /\ headingLoop.h > Len(find_all(helperIn, HeadingTags))
    /\ helperOut' = <<Return(<<headingLoop.ingredients, headingLoop.instructions>>)>>
    /\ UNCHANGED <<helperIn, headingLoop, heuristicLocals, recipeVars, convVars, parseVars, scrapeVars, apiVars>>

NextHeadings ==
    \/ HeadingsIterate
    \/ HeadingsReturn

SpecHeadings == InitHeadings /\ [][NextHeadings]_vars

\* The loop taken step by step ends as _extract_from_headings does
HeadingsLoopAgrees ==
    helperOut # <<>> => helperOut[1] = extract_from_headings(helperIn)

\* C16: in the heading-based heuristic the list element that the
\* instructions were read from is never the list element that the
\* ingredients were read from, in whatever order the two headings come
\* (also when the instructions heading comes first and no list lies between
\* the two headings).
C16_InstructionsListIsNotIngredientsList ==
    (headingLoop.ingredients # <<>> /\ headingLoop.instructions # <<>>) =>
        headingLoop.instructions_list_elem # headingLoop.ingredients_list_elem

\* The two are the same list only when an instructions heading comes before
\* the ingredients heading with no list between them
C16_OnlyAfterInstructionsHeading ==
    (/\ headingLoop.ingredients # <<>>
     /\ headingLoop.instructions # <<>>
     /\ headingLoop.instructions_list_elem = headingLoop.ingredients_list_elem)
    => \E i, j \in DOMAIN helperIn :
          /\ i < j /\ j < headingLoop.ingredients_list_elem
          /\ helperIn[i].tag \in HeadingTags /\ helperIn[j].tag \in HeadingTags
          /\ contains(lower(helperIn[i].text), <<"m", "e", "t", "h", "o", "d">>)
          /\ contains(lower(helperIn[j].text), <<"i", "n", "g", "r", "e", "d", "i", "e", "n", "t">>)
          /\ \A k \in i..j : helperIn[k].tag \notin ListTags

(***************************************************************************)
(* RecipeScraper._parse_duration as a function of its input: one call on   *)
(* None or on a text put together from a few parts.                        *)
(***************************************************************************)
MaxDurationParts == 3   \* parts in the text passed to _parse_duration

DurationParts == { <<"P", "T">>, <<"1", "H">>, <<"3", "0", "M">>, <<"5", "S">>, <<"0">>, <<" ", "m", "i", "n">> }

RECURSIVE DurationTexts(_)
DurationTexts(n) ==
    IF n = 0 THEN {<<>>}
    ELSE LET shorter == DurationTexts(n - 1)
         IN  shorter \cup {t \o part : t \in shorter, part \in DurationParts}

InitDuration ==
    /\ helperIn \in {None} \cup {Some(t) : t \in DurationTexts(MaxDurationParts)}
    /\ helperOut = <<>>
    /\ headingLoop = <<>>
    /\ heuristicLocals = <<>>
    /\ RecipeIdle /\ ConvIdle /\ ParseIdle /\ ScrapeIdle /\ ApiIdle

ParseDuration ==
    /\ helperOut = <<>>
    /\ helperOut' = <<parse_duration(helperIn)>>
    /\ UNCHANGED <<helperIn, headingLoop, heuristicLocals, recipeVars, convVars, parseVars, scrapeVars, apiVars>>

NextDuration == ParseDuration

SpecDuration == InitDuration /\ [][NextDuration]_vars

\* The tokens '#h', '#m', '#s' of the components that follow 'PT' in s, in
\* this order
duration_tokens(s) ==
    LET h == ComponentLen(s, 3, "H")
        m == ComponentLen(s, 3 + h, "M")
        sec == ComponentLen(s, 3 + h + m, "S")
    IN  (IF h = 0 THEN <<>> ELSE <<SubSeq(s, 3, h + 1) \o <<"h">>>>)
        \o (IF m = 0 THEN <<>> ELSE <<SubSeq(s, 3 + h, h + m + 1) \o <<"m">>>>)
        \o (IF sec = 0 THEN <<>> ELSE <<SubSeq(s, 3 + h + m, h + m + sec + 1) \o <<"s">>>>)

\* A text that parses into at least one component
has_component(s) == startswith(s, <<"P", "T">>) /\ duration_tokens(s) # <<>>

\* _parse_duration gives the tokens of the components of a text that has
\* one, and gives back every other (non-empty) text for which verbatim holds
DurationConverted(verbatim) ==
    (helperOut # <<>> /\ helperIn # None /\ helperIn # Some(<<>>)) =>
        /\ has_component(helperIn[1]) =>
              helperOut[1] = Some(join(duration_tokens(helperIn[1])))
        /\ (~has_component(helperIn[1]) /\ verbatim) => helperOut[1] = helperIn

\* C20: _parse_duration turns a 'PT#H#M#S' text into the tokens '#h', '#m',
\* '#s' of exactly the components present, joined by spaces, and returns
\* every text that it cannot parse into at least one component as it is,
\* also a text that starts with 'PT' and has no H, M or S component.
C20_DurationTokensOrVerbatim == DurationConverted(TRUE)

\* The same, verbatim only for the texts that do not start with 'PT'
C20_VerbatimUnlessPT ==
    DurationConverted(helperIn # None /\ ~startswith(helperIn[1], <<"P", "T">>))

(***************************************************************************)
(* RecipeScraper._parse_heuristic, one strategy per step, on a document    *)
(* (helperIn) made of a few headings, lists and tables.  heuristicLocals   *)
(* holds where the call is (stage) and its locals ingredients and          *)
(* instructions; helperOut receives the Recipe returned, or the exception  *)
(* that parsing an ingredient raised.                                      *)
(***************************************************************************)
MaxHeuristicElems == 3      \* elements in the document passed to _parse_heuristic

HeuristicElements ==
    { Heading("h2", <<"I", "n", "g", "r", "e", "d", "i", "e", "n", "t", "s">>),
      Heading("strong", <<"M", "e", "t", "h", "o", "d">>),
      List("ul", << <<"2", " ", "c", "u", "p", "s", " ", "f", "l", "o", "u", "r">>, <<"1", " ", "t", "s", "p", " ", "s", "a", "l", "t">>, <<"o", "l", "i", "v", "e", " ", "o", "i", "l">> >>),
      List("ul", << <<"1", " ", "c", "u", "p", " ", "s", "u", "g", "a", "r">>, <<"2", " ", "t", "b", "s", "p", " ", "b", "u", "t", "t", "e", "r">> >>),
      List("ul", << <<"(", "2", " ", "c", "u", "p", "s", ")", " ", "s", "t", "o", "c", "k">>, <<"1", " ", "t", "s", "p", " ", "s", "a", "l", "t">>, <<"b", "u", "t", "t", "e", "r">> >>),
      List("ol", << <<"M", "i", "x", " ", "t", "h", "e", " ", "f", "l", "o", "u", "r", " ", "a", "n", "d", " ", "t", "h", "e", " ", "s", "a", "l", "t", " ", "i", "n", " ", "a", " ", "l", "a", "r", "g", "e", " ", "b", "o", "w", "l", ",", " ", "t", "h", "e", "n", " ", "a", "d", "d", " ", "w", "a", "t", "e", "r">>,
                    <<"B", "a", "k", "e", ".">> >>),
      Table(<< << <<"2", " ", "c", "u", "p", "s">>, <<"f", "l", "o", "u", "r">> >>, << <<>>, <<"B", "R", "O", "T", "H">> >>,
               << <<"1">>, <<"e", "g", "g">> >> >>) }

InitHeuristic ==
    /\ helperIn \in SeqsUpTo(HeuristicElements, MaxHeuristicElems)
    /\ helperOut = <<>>
    /\ headingLoop = <<>>
    /\ heuristicLocals = [stage |-> "Headings", ingredients |-> <<>>, instructions |-> <<>>]
    /\ RecipeIdle /\ ConvIdle /\ ParseIdle /\ ScrapeIdle /\ ApiIdle

\* A table strategy that runs whatever the headings gave, and replaces it
\* when it finds an ingredient
tables_always(body, ingredients) ==
    first_found(parse_each(table_lines(body, find_all(body, {"table"}))),
                Return(ingredients))

\* Method 2: the rows of the tables, if not ingredients
tables_step(body, ingredients) ==
    IF ingredients = <<>>
    THEN parse_each(table_lines(body, find_all(body, {"table"})))
    ELSE Return(ingredients)

\* Method 3: the first list that looks like ingredients, if not ingredients
lists_step(body, ingredients) ==
    IF ingredients = <<>>
    THEN parse_each(list_lines(body, find_all(body, ListTags)))
    ELSE Return(ingredients)

\* The instructions of an ordered list, if not instructions
instructions_step(body, instructions) ==
    IF instructions = <<>>
    THEN fallback_instructions(body, find_all(body, {"ol"}))
    ELSE instructions

\* return Recipe(...)
heuristic_return(body, url, ingredients, instructions) ==
    recipe_of(IF find_all(body, {"h1"}) # <<>>
              THEN strip(body[find_all(body, {"h1"})[1]].text)
              ELSE <<"U", "n", "t", "i", "t", "l", "e", "d", " ", "R", "e", "c", "i", "p", "e">>,
              serves(get_text(body)),
              labelled_minutes(get_text(body), <<"p", "r", "e", "p">>),
              labelled_minutes(get_text(body), <<"c", "o", "o", "k">>), None,
              Return(ingredients), instructions, url)

\* The call goes on to the next stage with the ingredients a strategy
\* gave, or ends with the exception raised while parsing them
HeuristicAdvance(stage, next, ingredients, instructions) ==
    /\ helperOut = <<>>
    /\ heuristicLocals.stage = stage
    /\ IF ingredients.raised
       THEN helperOut' = <<ingredients>> /\ UNCHANGED heuristicLocals
       ELSE /\ heuristicLocals' = [stage |-> next, ingredients |-> ingredients.value,
                                   instructions |-> instructions]
            /\ UNCHANGED helperOut
    /\ UNCHANGED <<helperIn, headingLoop, recipeVars, convVars, parseVars, scrapeVars, apiVars>>

\* The pair that _extract_from_headings returned, as the locals
HeadingsFound(found) ==
    HeuristicAdvance("Headings", "Tables",
                     IF found.raised THEN found ELSE Return(found.value[1]),
                     IF found.raised THEN <<>> ELSE found.value[2])

HeuristicHeadings == HeadingsFound(extract_from_headings(helperIn))

HeuristicTables ==
    HeuristicAdvance("Tables", "Lists",
                     tables_step(helperIn, heuristicLocals.ingredients),
                     heuristicLocals.instructions)

HeuristicLists ==
    HeuristicAdvance("Lists", "Instructions",
                     lists_step(helperIn, heuristicLocals.ingredients),
                     heuristicLocals.instructions)

HeuristicInstructions ==
    HeuristicAdvance("Instructions", "Return",
                     Return(heuristicLocals.ingredients),
                     instructions_step(helperIn, heuristicLocals.instructions))

HeuristicReturn ==
    /\ helperOut = <<>>
    /\ heuristicLocals.stage = "Return"
    /\ helperOut' = <<heuristic_return(helperIn, "http://x/bread",
                                       heuristicLocals.ingredients,
                                       heuristicLocals.instructions)>>
    /\ UNCHANGED <<helperIn, headingLoop, heuristicLocals, recipeVars, convVars,
                   parseVars, scrapeVars, apiVars>>

NextHeuristic ==
    \/ HeuristicHeadings
    \/ HeuristicTables
    \/ HeuristicLists
    \/ HeuristicInstructions
    \/ HeuristicReturn

SpecHeuristic == InitHeuristic /\ [][NextHeuristic]_vars

\* The call taken step by step ends as _parse_heuristic does
HeuristicStepsAgree ==
    helperOut # <<>> => helperOut[1] = parse_heuristic(helperIn, "http://x/bread")

\* The stages in the order of the code
StageRank(stage) ==
    CASE stage = "Headings" -> 1
      [] stage = "Tables" -> 2
      [] stage = "Lists" -> 3
      [] stage = "Instructions" -> 4
      [] stage = "Return" -> 5

\* C21: the heuristic extractor runs its strategies in the order headings,
\* tables, lists, ordered-list instructions; the tables give ingredients
\* only when the headings gave none, the lists only when neither gave any,
\* the instructions fallback only when the headings gave no instructions,
\* and a non-empty ingredients or instructions sequence is never replaced
\* by a later strategy.
C21_FirstFoundIsKept ==
    [][/\ heuristicLocals'.stage # heuristicLocals.stage =>
             StageRank(heuristicLocals'.stage) = StageRank(heuristicLocals.stage) + 1
       /\ (heuristicLocals.stage # "Headings" /\ heuristicLocals.ingredients # <<>>) =>
             heuristicLocals'.ingredients = heuristicLocals.ingredients
       /\ (heuristicLocals.stage # "Headings" /\ heuristicLocals.instructions # <<>>) =>
             heuristicLocals'.instructions = heuristicLocals.instructions
       /\ heuristicLocals'.ingredients # heuristicLocals.ingredients =>
             heuristicLocals.stage \in {"Headings", "Tables", "Lists"}
       /\ heuristicLocals'.instructions # heuristicLocals.instructions =>
             heuristicLocals.stage \in {"Headings", "Instructions"}]_vars

\* C21 witness: the call has come to its end with the ingredients and the
\* instructions that the headings gave, in a document with a table and an
\* ordered list that the later strategies would have read.
C21_Witness ==
    /\ heuristicLocals.stage = "Return"
    /\ heuristicLocals.ingredients # <<>>
    /\ heuristicLocals.instructions # <<>>
    /\ heuristicLocals.ingredients = extract_from_headings(helperIn).value[1]
    /\ heuristicLocals.instructions = extract_from_headings(helperIn).value[2]
    /\ \/ tables_step(helperIn, <<>>).value # <<>>
       \/ instructions_step(helperIn, <<>>) # <<>>

\* The items among the first five of a list that contain an ingredient
\* keyword
keyword_items(items) ==
    {i \in 1..Len(items) :
        /\ i <= 5
        /\ \E w \in 1..Len(ingredient_words) :
              contains(lower(items[i]), ingredient_words[w])}

\* The first of the lists, in document order, that has `least` items or
\* more, two of its first five with an ingredient keyword (0: none has)
RECURSIVE first_keyword_list(_, _, _)
first_keyword_list(body, lists, least) ==
    IF lists = <<>> THEN 0
    ELSE IF /\ Len(body[lists[1]].items) >= least
            /\ Cardinality(keyword_items(body[lists[1]].items)) >= 2
         THEN lists[1]
         ELSE first_keyword_list(body, Tail(lists), least)

\* What the list strategy is to give: all the items of that list, parsed
keyword_list_parsed(body, accepted) ==
    IF accepted = 0 THEN Return(<<>>)
    ELSE parse_each(item_texts(body[accepted].items))

\* The list strategy, when it runs and no item raises, leaves the parsed
\* items of the first list of `least` items or more with two keyword
\* matches
ListsStepGives(least) ==
    (/\ heuristicLocals.stage = "Lists"
     /\ heuristicLocals.ingredients = <<>>
     /\ heuristicLocals'.stage = "Instructions") =>
        heuristicLocals'.ingredients =
            keyword_list_parsed(helperIn,
                first_keyword_list(helperIn, find_all(helperIn, ListTags), least)).value

\* C22: the list strategy accepts the first ul/ol, in document order, of
\* which at least 2 of the first 5 items contain an ingredient keyword,
\* however many items the list has (a list of 2 items, both with a keyword,
\* qualifies), parses all its items as ingredients and examines no later
\* list.
C22_FirstKeywordListOfAnyLength == [][ListsStepGives(1)]_vars

\* As the code is: the same for the lists of 3 items or more; a list of
\* fewer items is never accepted.
C22_ListsOfThreeItemsOrMore == [][ListsStepGives(3)]_vars

\* An item of an ordered list that reads like an instruction: longer than
\* 50 characters after normalization and not starting with a weight
reads_like_instruction(text) ==
    Len(text) > 50 /\ ~starts_with_grams(text)

\* The first of the ordered lists, in document order, of two items or more
\* of which one reads like an instruction (0: none)
RECURSIVE first_instruction_list(_, _)
first_instruction_list(body, lists) ==
    IF lists = <<>> THEN 0
    ELSE IF /\ Len(body[lists[1]].items) >= 2
            /\ \E i \in 1..Len(body[lists[1]].items) :
                  reads_like_instruction(clean_html_text(strip(body[lists[1]].items[i])))
         THEN lists[1]
         ELSE first_instruction_list(body, Tail(lists))

\* What the fallback is to give of the accepted list: every non-empty item
\* (wholesale), or the items that read like instructions only
fallback_items(body, accepted, wholesale) ==
    IF accepted = 0 THEN <<>>
    ELSE IF wholesale THEN cleaned_nonempty(body[accepted].items)
         ELSE SelectSeq(cleaned_nonempty(body[accepted].items), reads_like_instruction)

\* The instructions fallback, when it runs, leaves the items of the first
\* ordered list that it accepts
FallbackStepGives(wholesale) ==
    (/\ heuristicLocals.stage = "Instructions"
     /\ heuristicLocals.instructions = <<>>
     /\ heuristicLocals'.stage = "Return") =>
        heuristicLocals'.instructions =
            fallback_items(helperIn,
                first_instruction_list(helperIn, find_all(helperIn, {"ol"})), wholesale)

\* C23: the instructions fallback accepts the first ordered list of 2 items
\* or more in which some normalized item is longer than 50 characters and
\* does not start with a bare weight, and the instructions are then every
\* non-empty item of that list, in order, the items of 50 characters or
\* fewer among them.
C23_AcceptedListIsTakenWhole == [][FallbackStepGives(TRUE)]_vars

\* As the code is: of the accepted list only the items that themselves are
\* longer than 50 characters and do not start with a weight are kept.
C23_OnlyTheLongItems == [][FallbackStepGives(FALSE)]_vars

(***************************************************************************)
(* app.py: the web API.  The module keeps one global, current_recipe, that *)
(* the handlers of /api/scrape, /api/extract-image, /api/scale and         *)
(* /api/convert assign; requests are handled one after the other.  The     *)
(* scraper and the Anthropic client are collaborators: what they return or *)
(* raise is an input of the request.  A response is its status code.       *)
(***************************************************************************)
MaxApiRecipes == 2  \* Recipe objects the requests of one run create

\* What a handler leaves: the global, the heaps and the status of the
\* response
Reply(current, heaps, status) ==
    [current_recipe |-> current, heaps |-> heaps, status |-> status]

\* current_recipe = <a new Recipe>: the Recipe and its Ingredient objects
\* are put on the heaps
Load(ih, rh, rec) ==
    <<ih \o rec.ingredients,
      Append(rh, [rec EXCEPT !.ingredients =
                      [i \in 1..Len(rec.ingredients) |-> Len(ih) + i]])>>

\* A handler that assigns the Recipe of the heaps' last object
Stored(heaps) == Reply(Some(Len(heaps[2])), heaps, 200)

\* A scrape_recipe that resets the global before it tries
scrape_resetting(cur, ih, rh, data, scraped) ==
    IF data[1] # "dict" THEN Reply(cur, <<ih, rh>>, 500)
    ELSE IF ~truthy(get(data, "url", JNull)) THEN Reply(cur, <<ih, rh>>, 400)
    ELSE IF scraped.raised THEN Reply(None, <<ih, rh>>, 500)
    ELSE Stored(Load(ih, rh, scraped.value))

\* scrape_recipe; scraped is what scraper.scrape(url) returns or raises
scrape_recipe(cur, ih, rh, data, scraped) ==
    IF data[1] # "dict" THEN Reply(cur, <<ih, rh>>, 500)
    ELSE IF ~truthy(get(data, "url", JNull)) THEN Reply(cur, <<ih, rh>>, 400)
    ELSE IF scraped.raised THEN Reply(cur, <<ih, rh>>, 500)
    ELSE Stored(Load(ih, rh, scraped.value))

\* A JSON null as None, any other value as itself
optional(j) == IF j[1] = "null" THEN None ELSE Some(j[2])

\* Ingredient(quantity=ing.get('quantity'), unit=ing.get('unit'),
\* item=ing.get('item', ''), original_text=''), for a number or null as
\* quantity and a text or null as unit
image_ingredient(ing) ==
    LET quantity == get(ing, "quantity", JNull)
    IN  Ingredient(IF quantity[1] = "null" THEN None ELSE <<quantity[2], 1>>,
                   optional(get(ing, "unit", JNull)),
                   get(ing, "item", JStr(<<>>))[2], <<>>)

\* The try block of extract_from_image: the Recipe made of the reply of
\* client.messages.create, or the exception raised on the way
image_recipe(reply) ==
    IF reply.raised THEN reply
    ELSE IF ~reply.value.loads THEN Raise("JSONDecodeError")
    ELSE LET recipe_data == reply.value.data
             ingredients == get(recipe_data, "ingredients", JList(<<>>))[2]
         IN  IF recipe_data[1] # "dict" THEN Raise("AttributeError")
             ELSE IF \E i \in 1..Len(ingredients) : ingredients[i][1] # "dict"
             THEN Raise("AttributeError")
             ELSE Return(Recipe(get(recipe_data, "name", JStr(<<"U", "n", "t", "i", "t", "l", "e", "d", " ", "R", "e", "c", "i", "p", "e">>))[2],
                                optional(get(recipe_data, "servings", JNull)),
                                optional(get(recipe_data, "prep_time", JNull)),
                                optional(get(recipe_data, "cook_time", JNull)),
                                None,
                                [i \in 1..Len(ingredients) |-> image_ingredient(ingredients[i])],
                                get(recipe_data, "instructions", JList(<<>>))[2],
                                None))

\* extract_from_image
extract_from_image(cur, ih, rh, key, has_image, reply) ==
    IF ~key THEN Reply(cur, <<ih, rh>>, 500)
    ELSE IF ~has_image THEN Reply(cur, <<ih, rh>>, 400)
    ELSE IF image_recipe(reply).raised THEN Reply(cur, <<ih, rh>>, 500)
    ELSE Stored(Load(ih, rh, image_recipe(reply).value))

\* float(factor): None stands for the ValueError of a text that is no
\* number and the TypeError of a value that is neither number nor text
float_of_factor(factor) ==
    CASE factor[1] = "num" -> <<factor[2], 1>>
      [] factor[1] = "str" -> float_of(factor[2])
      [] OTHER -> None

\* scale_recipe
scale_recipe(cur, ih, rh, data) ==
    IF cur = None THEN Reply(cur, <<ih, rh>>, 400)
    ELSE IF data[1] # "dict" THEN Reply(cur, <<ih, rh>>, 500)
    ELSE LET factor == float_of_factor(get(data, "factor", JNum(1)))
         IN  IF factor = None THEN Reply(cur, <<ih, rh>>, 400)
             ELSE Stored(Recipe_scale(ih, rh, cur[1], factor))

\* convert_recipe
convert_recipe(cur, ih, rh, data) ==
    IF cur = None THEN Reply(cur, <<ih, rh>>, 400)
    ELSE IF data[1] # "dict" THEN Reply(cur, <<ih, rh>>, 500)
    ELSE IF get(data, "system", JStr(<<"m", "e", "t", "r", "i", "c">>)) = JStr(<<"m", "e", "t", "r", "i", "c">>)
    THEN Stored(Recipe_convert_to_metric(ih, rh, cur[1]))
    ELSE Stored(Recipe_convert_to_imperial(ih, rh, cur[1]))

\* get_recipe
get_recipe(cur, ih, rh) ==
    IF cur = None THEN Reply(cur, <<ih, rh>>, 404) ELSE Reply(cur, <<ih, rh>>, 200)

\* What scraper.scrape(url) gives: a Recipe, or the exception of a failed
\* request or of the parser
ScrapeOutcomes ==
    { Raise("RequestException"), Raise("IndexError"),
      Return(Recipe(<<"S", "o", "u", "p">>, Some(2), Some(<<"1", "0", "m">>), None, None,
                    <<Pantry[2], Pantry[4]>>, << <<"C", "h", "o", "p", ".">>, <<"B", "o", "i", "l", ".">> >>,
                    Some(<<"h", "t", "t", "p", ":", "/", "/", "x", "/", "s", "o", "u", "p">>))) }

\* What client.messages.create gives: an exception, or a text that is no
\* JSON, a JSON list, a recipe one of whose ingredients is a text, or a
\* recipe
ImageReplies ==
    { Raise("APIError"),
      Return(Script(FALSE, JNull)),
      Return(Script(TRUE, JList(<<>>))),
      Return(Script(TRUE, JDict(<< <<"name", JStr(<<"C", "a", "k", "e">>)>>,
                                   <<"ingredients", JList(<<JStr(<<"f", "l", "o", "u", "r">>)>>)>> >>))),
      Return(Script(TRUE, JDict(<< <<"name", JStr(<<"C", "a", "k", "e">>)>>,
                                   <<"servings", JNum(4)>>,
                                   <<"ingredients",
                                     JList(<< JDict(<< <<"quantity", JNum(2)>>,
                                                       <<"unit", JStr(<<"c", "u", "p", "s">>)>>,
                                                       <<"item", JStr(<<"f", "l", "o", "u", "r">>)>> >>),
                                              JDict(<< <<"quantity", JNull>>,
                                                       <<"unit", JNull>>,
                                                       <<"item", JStr(<<"f", "r", "e", "s", "h", " ", "h", "e", "r", "b", "s">>)>> >>) >>)>>,
                                   <<"instructions", JList(<< <<"B", "a", "k", "e", ".">> >>)>> >>))) }

\* request.json of the requests
ScrapeData ==
    { JNull, JDict(<<>>), JDict(<< <<"url", JStr(<<>>)>> >>),
      JDict(<< <<"url", JStr(<<"h", "t", "t", "p", ":", "/", "/", "x", "/", "s", "o", "u", "p">>)>> >>) }
ScaleData ==
    { JNull, JDict(<<>>), JDict(<< <<"factor", JNum(2)>> >>),
      JDict(<< <<"factor", JStr(<<"0", ".", "5">>)>> >>),
      JDict(<< <<"factor", JStr(<<"d", "o", "u", "b", "l", "e">>)>> >>),
      JDict(<< <<"factor", JNull>> >>) }
ConvertData ==
    { JNull, JDict(<<>>), JDict(<< <<"system", JStr(<<"i", "m", "p", "e", "r", "i", "a", "l">>)>> >>) }

\* The module after import: no recipe; the key is set or not
InitApi ==
    /\ app \in [current_recipe : {None}, ANTHROPIC_API_KEY : BOOLEAN]
    /\ response = <<>>
    /\ RecipeIdle /\ ConvIdle /\ ParseIdle /\ ScrapeIdle /\ HelperIdle

\* One request: the handler's assignments and its response
Handle(route, data, collaborator, reply) ==
    /\ Len(reply.heaps[2]) <= MaxApiRecipes
    /\ app' = [app EXCEPT !.current_recipe = reply.current_recipe]
    /\ ingHeap' = reply.heaps[1]
    /\ recHeap' = reply.heaps[2]
    /\ response' = [route |-> route, data |-> data, collaborator |-> collaborator,
                    status |-> reply.status]
    /\ UNCHANGED <<lastCall, convVars, parseVars, scrapeVars, helperVars>>

ScrapeRecipe ==
    \E data \in ScrapeData, scraped \in ScrapeOutcomes :
        Handle("/api/scrape", data, scraped,
               scrape_recipe(app.current_recipe, ingHeap, recHeap, data, scraped))

ExtractFromImage ==
    \E has_image \in BOOLEAN, reply \in ImageReplies :
        Handle("/api/extract-image", IF has_image THEN JDict(<<>>) ELSE JNull, reply,
               extract_from_image(app.current_recipe, ingHeap, recHeap,
                                  app.ANTHROPIC_API_KEY, has_image, reply))

ScaleRecipe ==
    \E data \in ScaleData :
        Handle("/api/scale", data, <<>>,
               scale_recipe(app.current_recipe, ingHeap, recHeap, data))

ConvertRecipe ==
    \E data \in ConvertData :
        Handle("/api/convert", data, <<>>,
               convert_recipe(app.current_recipe, ingHeap, recHeap, data))

GetRecipe ==
    Handle("/api/recipe", JNull, <<>>,
           get_recipe(app.current_recipe, ingHeap, recHeap))

NextApi ==
    \/ ScrapeRecipe
    \/ ExtractFromImage
    \/ ScaleRecipe
    \/ ConvertRecipe
    \/ GetRecipe

SpecApi == InitApi /\ [][NextApi]_vars

\* The stored current recipe, as a value (None: no recipe is loaded)
StoredRecipe ==
    IF app.current_recipe = None THEN None
    ELSE Some(RecipeValue(ingHeap, recHeap[app.current_recipe[1]]))

\* The request that a step serves got an error response and left the
\* stored recipe as it was
RefusedUnchanged ==
    response'.status # 200 /\ StoredRecipe' = StoredRecipe

\* C26: over any sequence of requests, the stored current recipe changes
\* only on a request that returns a success response; while no recipe is
\* loaded, /api/scale, /api/convert and /api/recipe return an error and
\* leave the state unchanged; a failed scrape, a failed image extraction
\* and an invalid scale factor (one that float() rejects) return an error
\* and leave the recipe loaded before unchanged.
C26_StoredRecipeChangesOnlyOnSuccess ==
    [][/\ StoredRecipe' # StoredRecipe => response'.status = 200
       /\ (/\ app.current_recipe = None
           /\ response'.route \in {"/api/scale", "/api/convert", "/api/recipe"}) =>
             RefusedUnchanged
       /\ (response'.route = "/api/scrape" /\ response'.collaborator.raised) =>
             RefusedUnchanged
       /\ (response'.route = "/api/extract-image"
           /\ image_recipe(response'.collaborator).raised) => RefusedUnchanged
       /\ (/\ response'.route = "/api/scale"
           /\ response'.data[1] = "dict"
           /\ float_of_factor(get(response'.data, "factor", JNum(1))) = None) =>
             RefusedUnchanged]_vars

\* C26 witness: with a recipe loaded by an earlier request and scaled by
\* another, a request to /api/scale with a factor that is no number got an
\* error response.
C26_Witness ==
    /\ response # <<>>
    /\ response.route = "/api/scale"
    /\ response.data = JDict(<< <<"factor", JStr(<<"d", "o", "u", "b", "l", "e">>)>> >>)
    /\ response.status = 400
    /\ app.current_recipe # None
    /\ app.current_recipe[1] > 1
====
